---- MODULE Spec2Model ----
(***************************************************************************)
(* Mosaic Protocol: the per-request proof pipeline of                      *)
(* src/models/dynamic_proof.py (one-shot mode: one operating-system        *)
(* process per request, all processes sharing SCRIPT_DIR) and the          *)
(* line-oriented serving loop of src/backend/ml_inference_bridge.py        *)
(* (pipe mode).                                                            *)
(*                                                                         *)
(*   Spec            one-shot invocations run one after the other          *)
(*   SpecConcurrent  one-shot invocations overlap, interleaved stage by    *)
(*                   stage                                                 *)
(*   SpecPipe        one pipe-mode process serving its input stream        *)
(*   SpecScore       predict and classify_severity called on their own     *)
(*   SpecEmbed       output_to_embeddings called within one process        *)
(*   SpecEventLoop   requests run as coroutines of one event loop          *)
(*   SpecSetup       a setup script of src/models, then a one-shot request *)
(***************************************************************************)
EXTENDS Integers, Sequences, FiniteSets, TLC

VARIABLES
    \* ---- dynamic_proof.py, one entry per process ----
    pc,          \* position of each process in main / generate_fresh_proof
    argv,        \* sys.argv[1] of each process (NoArg when absent)
    fs,          \* the transient files of SCRIPT_DIR: path -> content
    error,       \* str(e) bound by "except Exception as e" (NoError outside it)
    verify_res,  \* value returned by ezkl.verify
    proof_data,  \* content loaded from the proof file
    result,      \* what generate_fresh_proof handed to its caller
    stdout,      \* records printed to stdout by main
    exit_code,   \* process exit status (Running while it runs)
    invoked,     \* history: stages entered, in order
    completed,   \* history: stages that finished without raising, in order
    elapsed,     \* what had run between start_time and the taking of elapsed
    stderr,      \* what main printed to stderr (the progress lines of
                 \* generate_fresh_proof are not followed)
    \* ---- ml_inference_bridge.py, one process ----
    ppc,         \* position in main
    models,      \* the dict built by load_models
    lines,       \* history: the lines taken from sys.stdin, in order
    exc,         \* the exception an except clause of main is handling
    out,         \* records written to stdout, each with the line it answers
    bridge_exit, \* process exit status (Running while it runs)
    write_failed,\* history: some print to stdout raised
    proba_calls, \* history: the predict_proba calls, each with its line
    \* ---- the caller ----
    overlap,     \* whether one-shot processes are started while others run
    \* ---- predict and classify_severity, called on their own ----
    call,        \* the function called and its arguments
    returned,    \* what the call returned (NoReturn until it has)
    \* ---- output_to_embeddings, called within one process ----
    rng,         \* state of the process-wide generator behind np.random
    subject,     \* the text whose embedding is followed
    emb_calls,   \* history: the calls of output_to_embeddings, in order
    rng_uses,    \* history: the call before which other code last used np.random
    \* ---- SCRIPT_DIR's durable files and the setup scripts ----
    durable,     \* durable file name -> who wrote the file (Absent: no file)
    loop,        \* whether the requests are coroutines of one event loop
    script,      \* the setup script that is run
    spc,         \* position in the script's main
    step,        \* index of the script's next step
    steps_run,   \* history: the steps entered, each with its outcome
    verified,    \* what ezkl.verify returned to the script
    said,        \* history: the verdicts the script printed
    ret,         \* what the script's main returned
    script_exit  \* the script's exit status (Running while it runs)

proofVars == <<pc, argv, fs, error, verify_res, proof_data, result,
               stdout, exit_code, invoked, completed, elapsed, stderr>>

pipeVars == <<ppc, models, lines, exc, out, bridge_exit, write_failed,
              proba_calls>>

scoreVars == <<call, returned>>

embedVars == <<rng, subject, emb_calls, rng_uses>>

fnVars == <<scoreVars, embedVars>>

setupVars == <<durable, loop, script, spc, step, steps_run, verified, said,
               ret, script_exit>>

vars == <<proofVars, pipeVars, overlap, fnVars, setupVars>>

----------------------------------------------------------------------------
(* Bounds of the model *)

NumReqs == 2        \* concurrent one-shot processes
NumTexts == 3       \* encodable texts 1..NumTexts; text 0 is not encodable
MaxLines == 3       \* lines the pipe-mode process takes from its input

(* Program constants *)

ShortHashLen == 8   \* output_hash[:8]
HexDigestLen == 64  \* length of hashlib.sha256(...).hexdigest()
HexBase == 16
ExpectedFeatures == 68  \* "if len(features) != 68"

Reqs == 1..NumReqs
Texts == 0..NumTexts
NoArg == -1
Running == -1

Kinds == {"input", "witness", "proof"}

----------------------------------------------------------------------------
(* Text, digest and transient paths *)

\* str.encode() raises UnicodeEncodeError on a lone surrogate, which sys.argv
\* holds when the argument's bytes are not valid in the file-system encoding.
\* Text 0 stands for such an argument.
Encodable(t) == t # 0

\* hashlib.sha256(b).hexdigest(): 64 hex digits, different for different
\* texts.  The representative digests: texts 2k and 2k+1 agree on their first
\* ShortHashLen digits (big-endian k) and differ in the digit after them, as
\* the digests of two distinct texts may.
HexDigest(t) ==
    [i \in 1..HexDigestLen |->
        IF i <= ShortHashLen
        THEN ((t \div 2) \div (HexBase ^ (ShortHashLen - i))) % HexBase
        ELSE IF i = ShortHashLen + 1 THEN t % 2 ELSE 0]

DigestTable == [t \in Texts |-> HexDigest(t)]

Sha256(t) == DigestTable[t]

get_temp_paths_whole_digest(output_hash) ==
    [k \in Kinds |-> [kind |-> k, short_hash |-> output_hash]]

get_temp_paths(output_hash) ==
    [k \in Kinds |->
        [kind |-> k, short_hash |-> SubSeq(output_hash, 1, ShortHashLen)]]

PathTable == [t \in Texts |-> get_temp_paths(Sha256(t))]

----------------------------------------------------------------------------
(* dynamic_proof.py: output_to_embeddings *)

MaxOccur == 1        \* occurrences of each list word in the text followed
MaxEmbedCalls == 2   \* calls of output_to_embeddings in one run

EmbeddingSize == 16  \* np.random.randn(16)
SeedBytes == 4       \* hash_bytes[:4]
HexPerByte == 2      \* bytes.fromhex

bullish_words ==
    <<"growth", "increase", "profit", "bullish", "rise", "gain", "positive">>
bearish_words ==
    <<"decline", "decrease", "loss", "bearish", "fall", "drop", "negative">>

\* A text, as far as lines 47-59 can tell texts apart: how often each word of
\* the two lists occurs in it, in any case of letters.  The texts of the model
\* are made of the first three words of either list.
Vocabulary ==
    <<bullish_words[1], bullish_words[2], bullish_words[3],
      bearish_words[1], bearish_words[2], bearish_words[3]>>

EmbedTexts ==
    [{Vocabulary[i] : i \in 1..Len(Vocabulary)} -> 0..MaxOccur]

AddOccurrence(text, word) == [text EXCEPT ![word] = @ + 1]

RECURSIVE TextCode(_, _)
\* a number that identifies the text among the texts of the model and those
\* with one occurrence more
TextCode(text, n) ==
    IF n = 0 THEN 0
    ELSE TextCode(text, n - 1) * (MaxOccur + 2) + text[Vocabulary[n]]

\* hashlib.sha256(output_text.encode()).hexdigest(), line 75
TextDigest(text) == HexDigest(TextCode(text, Len(Vocabulary)))

RECURSIVE FromHex(_, _)
\* int.from_bytes(bytes.fromhex(output_hash)[:4], 'big'): the first n hex
\* digits, most significant first
FromHex(digits, n) ==
    IF n = 0 THEN 0 ELSE FromHex(digits, n - 1) * HexBase + digits[n]

\* np.random.seed(seed)
Seeded(seed) == [seed |-> seed, pos |-> 0]

\* np.random.randn(n) in generator state st: the next n values of the stream
\* of st's seed, a value being named by its seed and its place in the stream
Randn(st, n) == [i \in 0..(n - 1) |-> [seed |-> st.seed, draw |-> st.pos + i]]

Drawn(st, n) == [st EXCEPT !.pos = @ + n]

\* "word in text_lower", counted over a list
Hits(words, text) ==
    Cardinality({i \in 1..Len(words) :
                    words[i] \in DOMAIN text /\ text[words[i]] > 0})

\* What IEEE-754 double arithmetic makes of "sentiment += 0.3", b times, then
\* "sentiment -= 0.3", n times, starting from 0.0: the result is
\* (b - n) * fl(0.3) + RoundingOf[b + 1][n + 1] * 2^-54, where fl(0.3) is the
\* double nearest to 0.3.
RoundingOf ==
    << << 0,  0,  0,  1,  0, -1, -2, -3>>,
       << 0,  0,  0,  0,  1,  0, -1, -2>>,
       << 0,  0,  0,  0,  0,  1,  0, -1>>,
       <<-1, -2, -2, -2, -2, -2, -3, -4>>,
       << 0, -1, -2, -2, -2, -2, -2, -3>>,
       << 1,  0, -1, -2, -2, -2, -2, -2>>,
       << 2,  1,  0, -1, -2, -2, -2, -2>>,
       << 3,  2,  1,  0, -1, -2, -2, -2>> >>

\* lines 53-59: the sentiment scalar, as its number of 0.3 steps and the
\* rounding error on top of them
Sentiment(text) ==
    LET b == Hits(bullish_words, text)
        n == Hits(bearish_words, text)
    IN [steps |-> b - n, err |-> RoundingOf[b + 1][n + 1]]

IsPositive(s) == s.steps > 0 \/ (s.steps = 0 /\ s.err > 0)
IsNegative(s) == s.steps < 0 \/ (s.steps = 0 /\ s.err < 0)

output_to_embeddings_unseeded(output_text, output_hash) ==
    LET embeddings == Randn(rng, EmbeddingSize)
        sentiment == Sentiment(output_text)
    IN [embeddings |->
            [embeddings EXCEPT
                ![14] = [tanh |-> sentiment],
                ![15] = IF IsPositive(sentiment) THEN 1
                        ELSE IF IsNegative(sentiment) THEN -1 ELSE 0],
        rng |-> Drawn(rng, EmbeddingSize)]

\* lines 33-65: the vector returned, indexed from 0 as in the source, and the
\* state in which the call leaves the process-wide generator
output_to_embeddings(output_text, output_hash) ==
    LET seed == FromHex(output_hash, HexPerByte * SeedBytes)
        embeddings == Randn(Seeded(seed), EmbeddingSize)
        sentiment == Sentiment(output_text)
    IN [embeddings |->
            [embeddings EXCEPT
                ![14] = [tanh |-> sentiment],
                ![15] = IF IsPositive(sentiment) THEN 1
                        ELSE IF IsNegative(sentiment) THEN -1 ELSE 0],
        rng |-> Drawn(Seeded(seed), EmbeddingSize)]

\* the text followed, and the text with one more occurrence of the word
TheTexts == {subject.text, AddOccurrence(subject.text, subject.word)}

\* a call of output_to_embeddings with a text and its digest (line 88)
Embed ==
    /\ Len(emb_calls) < MaxEmbedCalls
    /\ \E text \in TheTexts :
          LET out_ == output_to_embeddings(text, TextDigest(text))
          IN /\ emb_calls' = Append(emb_calls,
                                    [text |-> text,
                                     embeddings |-> out_.embeddings,
                                     rng_before |-> rng,
                                     rng_after |-> out_.rng])
             /\ rng' = out_.rng
    /\ UNCHANGED <<proofVars, pipeVars, overlap, setupVars, scoreVars, subject, rng_uses>>

\* a seed other code of the repository gives the generator
OtherSeeds == {42}

\* some other code of the process uses np.random before the next call, once:
\* it draws a value or seeds the generator
OtherRandomUse ==
    /\ Len(emb_calls) < MaxEmbedCalls
    /\ rng_uses <= Len(emb_calls)
    /\ rng_uses' = Len(emb_calls) + 1
    /\ \/ rng' = Drawn(rng, 1)
       \/ \E seed \in OtherSeeds : rng' = Seeded(seed)
    /\ UNCHANGED <<proofVars, pipeVars, overlap, setupVars, scoreVars, subject, emb_calls>>

----------------------------------------------------------------------------
(* dynamic_proof.py: the requests *)

output_hash(r) == Sha256(argv[r])
paths(r) == PathTable[argv[r]]

\* paths.values(): the dict's insertion order
CleanupOrder == <<"input", "witness", "proof">>

AllPaths ==
    UNION {{get_temp_paths(Sha256(t))[k] : k \in Kinds} :
              t \in {u \in Texts : Encodable(u)}}

NoFile == [by |-> 0, of |-> 0]
NoError == "none"
NoResult == [kind |-> "none"]
NoElapsed == [taken |-> FALSE, begun |-> <<>>, covers |-> <<>>]

StageOrder == <<"EMBED", "BUILD_INPUT", "GEN_WITNESS", "GEN_PROOF", "LOCAL_VERIFY">>

\* lines 17-21: the durable files generate_fresh_proof hands to the engine
COMPILED_PATH == "model.compiled"
SETTINGS_PATH == "settings.json"
SRS_PATH == "kzg_17.srs"
PK_PATH == "pk.key"
VK_PATH == "vk.key"

RequestArtifacts == {COMPILED_PATH, SETTINGS_PATH, SRS_PATH, PK_PATH, VK_PATH}

\* the files of SCRIPT_DIR other than the requests' transient files
DurableNames ==
    RequestArtifacts \cup
    {"sentiment.onnx", "input.json", "calibration.json", "witness.json",
     "kzg.srs", "proof.json", "Verifier.sol", "test_input.json"}

Absent == "absent"

\* the engine finds every file it is told to read
Present(names) == \A n \in names : durable[n] # Absent

\* lines 98, 108-114 and 130: the durable files each engine call is given
StageReads ==
    [GEN_WITNESS |-> {COMPILED_PATH},
     GEN_PROOF |-> {COMPILED_PATH, PK_PATH, SRS_PATH},
     LOCAL_VERIFY |-> {SETTINGS_PATH, VK_PATH, SRS_PATH}]

----------------------------------------------------------------------------
(* The processes before they run *)

InitRequests ==
    /\ pc = [r \in Reqs |-> "main"]
    /\ fs = [p \in AllPaths |-> NoFile]
    /\ error = [r \in Reqs |-> NoError]
    /\ verify_res = [r \in Reqs |-> FALSE]
    /\ proof_data = [r \in Reqs |-> NoFile]
    /\ result = [r \in Reqs |-> NoResult]
    /\ stdout = [r \in Reqs |-> <<>>]
    /\ exit_code = [r \in Reqs |-> Running]
    /\ invoked = [r \in Reqs |-> <<>>]
    /\ completed = [r \in Reqs |-> <<>>]
    /\ elapsed = [r \in Reqs |-> NoElapsed]
    /\ stderr = [r \in Reqs |-> <<>>]

----------------------------------------------------------------------------
(* Helpers of generate_fresh_proof *)

Exited(r) == exit_code[r] # Running

\* the body of generate_fresh_proof, lines 72-165
InBody == {"embed", "gen_witness", "read_witness", "prove", "read_proof",
           "verify", "cleanup", "return"}

\* Requests are made once the setup script, if one is run, has ended.  The
\* caller starts the processes one after the other, each once every process
\* before it has exited, or lets them overlap.  When the requests are
\* coroutines of one event loop instead, the loop can switch from one to
\* another only where it awaits, and the body of generate_fresh_proof has no
\* await: ezkl.gen_witness, ezkl.prove and ezkl.verify are called as plain
\* functions (lines 98, 108, 130).
Scheduled(r) ==
    /\ spc \in {"idle", "exited"}
    /\ IF loop
       THEN \A q \in Reqs \ {r} : pc[q] \notin InBody
       ELSE overlap \/ \A q \in Reqs : q < r => Exited(q)

Enter(r, stage) == invoked' = [invoked EXCEPT ![r] = Append(@, stage)]
Complete(r, stage) == completed' = [completed EXCEPT ![r] = Append(@, stage)]

\* An exception raised inside the try block: "except Exception as e" binds it
\* and starts the handler's cleanup loop.
RaiseInTry(r, msg) ==
    /\ error' = [error EXCEPT ![r] = msg]
    /\ pc' = [pc EXCEPT ![r] = "cleanup"]

\* An exception raised inside the except handler leaves generate_fresh_proof;
\* asyncio.run re-raises it in main, which dies with a traceback on stderr.
RaiseInHandler(r, msg) ==
    /\ result' = [result EXCEPT ![r] = [kind |-> "raised", error |-> msg]]
    /\ exit_code' = [exit_code EXCEPT ![r] = 1]
    /\ pc' = [pc EXCEPT ![r] = "crashed"]
    /\ UNCHANGED error

----------------------------------------------------------------------------
(* main and generate_fresh_proof, one action per step *)

\* lines 170-171
UsageLines ==
    <<"Usage: python dynamic_proof.py <output_text> [job_id]",
      "  Output text should be the agent's actual output">>

Usage_on_stdout(r) ==
    /\ pc[r] = "main"
    /\ Scheduled(r)
    /\ UNCHANGED <<pipeVars, overlap, fnVars, setupVars>>
    /\ argv[r] = NoArg
    /\ stdout' = [stdout EXCEPT ![r] = @ \o UsageLines]
    /\ pc' = [pc EXCEPT ![r] = "exit"]
    /\ exit_code' = [exit_code EXCEPT ![r] = 1]
    /\ UNCHANGED <<argv, elapsed, stderr, fs, error, verify_res, proof_data,
                   result, invoked, completed>>

\* main, lines 169-172: no text argument
Usage(r) ==
    /\ pc[r] = "main"
    /\ Scheduled(r)
    /\ UNCHANGED <<pipeVars, overlap, fnVars, setupVars>>
    /\ argv[r] = NoArg
    /\ stderr' = [stderr EXCEPT ![r] = @ \o UsageLines]
    /\ pc' = [pc EXCEPT ![r] = "exit"]
    /\ exit_code' = [exit_code EXCEPT ![r] = 1]
    /\ UNCHANGED <<argv, elapsed, fs, error, verify_res, proof_data, result,
                   stdout, invoked, completed>>

\* main, lines 174-177, and generate_fresh_proof, lines 72-83: the digest is
\* computed before the try block is entered
Start(r) ==
    /\ pc[r] = "main"
    /\ Scheduled(r)
    /\ UNCHANGED <<pipeVars, overlap, fnVars, setupVars>>
    /\ argv[r] # NoArg
    /\ IF Encodable(argv[r])
       THEN /\ pc' = [pc EXCEPT ![r] = "embed"]
            /\ UNCHANGED <<result, exit_code>>
       ELSE /\ pc' = [pc EXCEPT ![r] = "crashed"]
            /\ result' = [result EXCEPT ![r] =
                             [kind |-> "raised", error |-> "UnicodeEncodeError"]]
            /\ exit_code' = [exit_code EXCEPT ![r] = 1]
    /\ UNCHANGED <<argv, elapsed, stderr, fs, error, verify_res, proof_data,
                   stdout, invoked, completed>>

\* lines 88-92: embed, then write the input file (open(..., 'w') truncates
\* whatever is at the path); open may raise, json.dump may raise after the
\* file was created
BuildInput(r) ==
    /\ pc[r] = "embed"
    /\ Scheduled(r)
    /\ UNCHANGED <<pipeVars, overlap, fnVars, setupVars>>
    /\ invoked' = [invoked EXCEPT ![r] = Append(Append(@, "EMBED"), "BUILD_INPUT")]
    /\ LET written == [fs EXCEPT ![paths(r)["input"]] = [by |-> r, of |-> argv[r]]]
       IN \/ /\ fs' = written
             /\ completed' = [completed EXCEPT ![r] =
                                 Append(Append(@, "EMBED"), "BUILD_INPUT")]
             /\ pc' = [pc EXCEPT ![r] = "gen_witness"]
             /\ UNCHANGED error
          \/ /\ fs' \in {fs, written}
             /\ Complete(r, "EMBED")
             /\ RaiseInTry(r, "input write error")
    /\ UNCHANGED <<argv, elapsed, stderr, verify_res, proof_data, result,
                   stdout, exit_code>>

\* line 98: ezkl.gen_witness(input, compiled, witness) raises, as it does
\* when a file it reads is missing, or writes the witness computed from what
\* the input file holds
GenWitness_swallow(r) ==
    /\ pc[r] = "gen_witness"
    /\ Scheduled(r)
    /\ UNCHANGED <<pipeVars, overlap, fnVars, setupVars>>
    /\ Enter(r, "GEN_WITNESS")
    /\ LET inp == fs[paths(r)["input"]]
       IN \/ /\ inp # NoFile
             /\ Present(StageReads["GEN_WITNESS"])
             /\ fs' = [fs EXCEPT ![paths(r)["witness"]] = [by |-> r, of |-> inp.of]]
             /\ Complete(r, "GEN_WITNESS")
          \/ UNCHANGED <<fs, completed>>
    /\ pc' = [pc EXCEPT ![r] = "read_witness"]
    /\ UNCHANGED <<argv, elapsed, stderr, error, verify_res, proof_data,
                   result, stdout, exit_code>>

GenWitness(r) ==
    /\ pc[r] = "gen_witness"
    /\ Scheduled(r)
    /\ UNCHANGED <<pipeVars, overlap, fnVars, setupVars>>
    /\ Enter(r, "GEN_WITNESS")
    /\ LET inp == fs[paths(r)["input"]]
       IN \/ /\ inp # NoFile
             /\ Present(StageReads["GEN_WITNESS"])
             /\ fs' = [fs EXCEPT ![paths(r)["witness"]] = [by |-> r, of |-> inp.of]]
             /\ Complete(r, "GEN_WITNESS")
             /\ pc' = [pc EXCEPT ![r] = "read_witness"]
             /\ UNCHANGED error
          \/ /\ RaiseInTry(r, "gen_witness error")
             /\ UNCHANGED <<fs, completed>>
    /\ UNCHANGED <<argv, elapsed, stderr, verify_res, proof_data, result,
                   stdout, exit_code>>

\* lines 100-104: open and load the witness file
ReadWitness(r) ==
    /\ pc[r] = "read_witness"
    /\ Scheduled(r)
    /\ UNCHANGED <<pipeVars, overlap, fnVars, setupVars>>
    /\ IF fs[paths(r)["witness"]] # NoFile
       THEN /\ pc' = [pc EXCEPT ![r] = "prove"]
            /\ UNCHANGED error
       ELSE RaiseInTry(r, "witness read error")
    /\ UNCHANGED <<argv, elapsed, stderr, fs, verify_res, proof_data, result,
                   stdout, exit_code, invoked, completed>>

Prove_regenerates_key(r) ==
    /\ pc[r] = "prove"
    /\ Scheduled(r)
    /\ UNCHANGED <<pipeVars, overlap, fnVars>>
    /\ UNCHANGED <<loop, script, spc, step, steps_run, verified, said, ret,
                   script_exit>>
    /\ durable' = [durable EXCEPT ![PK_PATH] = "a request"]
    /\ Enter(r, "GEN_PROOF")
    /\ LET wit == fs[paths(r)["witness"]]
       IN \/ /\ wit # NoFile
             /\ Present(StageReads["GEN_PROOF"])
             /\ fs' = [fs EXCEPT ![paths(r)["proof"]] = [by |-> r, of |-> wit.of]]
             /\ Complete(r, "GEN_PROOF")
             /\ pc' = [pc EXCEPT ![r] = "read_proof"]
             /\ UNCHANGED error
          \/ /\ RaiseInTry(r, "prove error")
             /\ UNCHANGED <<fs, completed>>
    /\ UNCHANGED <<argv, elapsed, stderr, verify_res, proof_data, result,
                   stdout, exit_code>>

\* lines 108-114: ezkl.prove(witness, compiled, pk, proof, srs)
Prove(r) ==
    /\ pc[r] = "prove"
    /\ Scheduled(r)
    /\ UNCHANGED <<pipeVars, overlap, fnVars, setupVars>>
    /\ Enter(r, "GEN_PROOF")
    /\ LET wit == fs[paths(r)["witness"]]
       IN \/ /\ wit # NoFile
             /\ Present(StageReads["GEN_PROOF"])
             /\ fs' = [fs EXCEPT ![paths(r)["proof"]] = [by |-> r, of |-> wit.of]]
             /\ Complete(r, "GEN_PROOF")
             /\ pc' = [pc EXCEPT ![r] = "read_proof"]
             /\ UNCHANGED error
          \/ /\ RaiseInTry(r, "prove error")
             /\ UNCHANGED <<fs, completed>>
    /\ UNCHANGED <<argv, elapsed, stderr, verify_res, proof_data, result,
                   stdout, exit_code>>

\* time.time() - start_time, start_time being taken at line 72 before any
\* stage: the stages entered and the stages completed since then
Since(r) == [taken |-> TRUE, begun |-> invoked[r], covers |-> completed[r]]

\* lines 117-121: load the proof file, take elapsed and the file's size
ReadProof(r) ==
    /\ pc[r] = "read_proof"
    /\ Scheduled(r)
    /\ UNCHANGED <<pipeVars, overlap, fnVars, setupVars>>
    /\ IF fs[paths(r)["proof"]] # NoFile
       THEN /\ proof_data' = [proof_data EXCEPT ![r] = fs[paths(r)["proof"]]]
            /\ elapsed' = [elapsed EXCEPT ![r] = Since(r)]
            /\ pc' = [pc EXCEPT ![r] = "verify"]
            /\ UNCHANGED error
       ELSE /\ RaiseInTry(r, "proof read error")
            /\ UNCHANGED <<proof_data, elapsed>>
    /\ UNCHANGED <<argv, stderr, fs, verify_res, result, stdout, exit_code,
                   invoked, completed>>

\* line 130: ezkl.verify(proof, settings, vk, srs) returns a boolean or raises;
\* the success path's cleanup loop follows
Verify(r) ==
    /\ pc[r] = "verify"
    /\ Scheduled(r)
    /\ UNCHANGED <<pipeVars, overlap, fnVars, setupVars>>
    /\ Enter(r, "LOCAL_VERIFY")
    /\ \/ /\ fs[paths(r)["proof"]] # NoFile
          /\ Present(StageReads["LOCAL_VERIFY"])
          /\ \E v \in BOOLEAN : verify_res' = [verify_res EXCEPT ![r] = v]
          /\ Complete(r, "LOCAL_VERIFY")
          /\ pc' = [pc EXCEPT ![r] = "cleanup"]
          /\ UNCHANGED error
       \/ /\ RaiseInTry(r, "verify error")
          /\ UNCHANGED <<verify_res, completed>>
    /\ UNCHANGED <<argv, elapsed, stderr, fs, proof_data, result, stdout,
                   exit_code>>

\* os.path.exists(path) followed by os.remove(path) on the first n paths of
\* paths.values(): the files among them are gone afterwards
RemovedUpTo(r, n) ==
    [p \in AllPaths |->
        IF \E i \in 1..n : p = paths(r)[CleanupOrder[i]] THEN NoFile ELSE fs[p]]

\* A process other than r is in its own cleanup loop over the path p: its
\* os.remove(p) can fall between r's os.path.exists(p) and r's os.remove(p).
PeerRemoves(r, p) ==
    \E q \in Reqs \ {r} :
        /\ pc[q] = "cleanup"
        /\ \E k \in Kinds : paths(q)[k] = p

\* lines 134-136 (inside the try block) and 157-159 (inside the except
\* handler): one pass of "for path in paths.values()".  Either every existing
\* file is removed, or os.remove raises at a path k that existed when tested,
\* the paths before it done and the paths after it not visited: the system
\* refused (the file stays), or the file was removed in between by a process
\* cleaning up the same path (FileNotFoundError).  An exception at line 136
\* is caught by line 153; one at line 159 leaves the function.
Cleanup(r) ==
    /\ pc[r] = "cleanup"
    /\ Scheduled(r)
    /\ UNCHANGED <<pipeVars, overlap, fnVars, setupVars>>
    /\ \/ /\ fs' = RemovedUpTo(r, Len(CleanupOrder))
          /\ pc' = [pc EXCEPT ![r] = "return"]
          /\ UNCHANGED <<error, result, exit_code>>
       \/ \E k \in 1..Len(CleanupOrder) :
             /\ fs[paths(r)[CleanupOrder[k]]] # NoFile
             /\ \/ fs' = RemovedUpTo(r, k - 1)
                \/ /\ PeerRemoves(r, paths(r)[CleanupOrder[k]])
                   /\ fs' = RemovedUpTo(r, k)
             /\ IF error[r] = NoError
                THEN /\ RaiseInTry(r, "remove error")
                     /\ UNCHANGED <<result, exit_code>>
                ELSE RaiseInHandler(r, "remove error")
    /\ UNCHANGED <<argv, elapsed, stderr, verify_res, proof_data, stdout,
                   invoked, completed>>

SuccessResult_timed_at_return(r) ==
    [kind |-> "returned", success |-> TRUE, proof |-> proof_data[r],
     outputHash |-> output_hash(r), verified |-> verify_res[r],
     generationTimeMs |-> Since(r), error |-> NoError]

\* lines 139-151 and 161-165: the returned record
SuccessResult(r) ==
    [kind |-> "returned", success |-> TRUE, proof |-> proof_data[r],
     outputHash |-> output_hash(r), verified |-> verify_res[r],
     generationTimeMs |-> elapsed[r], error |-> NoError]

FailureResult(r) ==
    [kind |-> "returned", success |-> FALSE, proof |-> NoFile,
     outputHash |-> output_hash(r), verified |-> FALSE,
     generationTimeMs |-> NoElapsed, error |-> error[r]]

Return(r) ==
    /\ pc[r] = "return"
    /\ Scheduled(r)
    /\ UNCHANGED <<pipeVars, overlap, fnVars, setupVars>>
    /\ result' = [result EXCEPT ![r] =
                     IF error[r] = NoError THEN SuccessResult(r)
                                           ELSE FailureResult(r)]
    /\ pc' = [pc EXCEPT ![r] = "print"]
    /\ UNCHANGED <<argv, elapsed, stderr, fs, error, verify_res, proof_data,
                   stdout, exit_code, invoked, completed>>

\* main, line 180: print(json.dumps(result))
PrintResult(r) ==
    /\ pc[r] = "print"
    /\ Scheduled(r)
    /\ UNCHANGED <<pipeVars, overlap, fnVars, setupVars>>
    /\ stdout' = [stdout EXCEPT ![r] = Append(@, result[r])]
    /\ exit_code' = [exit_code EXCEPT ![r] = 0]
    /\ pc' = [pc EXCEPT ![r] = "done"]
    /\ UNCHANGED <<argv, elapsed, stderr, fs, error, verify_res, proof_data,
                   result, invoked, completed>>

----------------------------------------------------------------------------
(* ml_inference_bridge.py: the lines of the input stream *)

\* What the loop can find on sys.stdin, by what lines 72-85 do with it:
\*   raw       "blank": empty after strip(); "undecodable": bytes that are
\*             no text in the stream's encoding; "text": anything else
\*   json      what json.loads makes of it: "invalid" (JSONDecodeError),
\*             "array" (a value without .get), "object"
\*   features  data.get('features', []): "absent" (the default []), "number"
\*             (a value without len()), "list"
\*   n         len(features)
\*   scorable  whether predict returns (TRUE) or raises (FALSE)
LineOf(raw, json, features, n, scorable) ==
    [raw |-> raw, json |-> json, features |-> features, n |-> n,
     scorable |-> scorable]

Lines ==
    {LineOf("blank", "-", "-", 0, FALSE),
     LineOf("undecodable", "invalid", "-", 0, FALSE),
     LineOf("text", "invalid", "-", 0, FALSE),
     LineOf("text", "array", "-", 0, FALSE),
     LineOf("text", "object", "absent", 0, FALSE),
     LineOf("text", "object", "number", 0, FALSE),
     LineOf("text", "object", "list", ExpectedFeatures - 1, FALSE),
     LineOf("text", "object", "list", ExpectedFeatures + 1, FALSE),
     LineOf("text", "object", "list", ExpectedFeatures, FALSE),
     LineOf("text", "object", "list", ExpectedFeatures, TRUE)}

NoModels == [recall |-> "none", precision |-> "none"]
NoException == "none"

Current == lines[Len(lines)]

\* print(json.dumps(record), flush=True) that went through
Written(kind, msg) == Append(out, [for |-> Len(lines), kind |-> kind, msg |-> msg])

InitBridge ==
    /\ ppc = "load"
    /\ models = NoModels
    /\ lines = <<>>
    /\ exc = NoException
    /\ out = <<>>
    /\ bridge_exit = Running
    /\ write_failed = FALSE
    /\ proba_calls = <<>>

----------------------------------------------------------------------------
(* ml_inference_bridge.py: main, one action per step *)

LoadModels_keeps_going ==
    /\ ppc = "load"
    /\ UNCHANGED <<proofVars, overlap, fnVars, setupVars>>
    /\ \/ models' = [recall |-> "loaded", precision |-> "loaded"]
       \/ models' = [recall |-> "loaded", precision |-> "none"]
    /\ ppc' = "banner"
    /\ UNCHANGED <<exc, lines, out, bridge_exit, write_failed, proba_calls>>

\* line 69 and load_models, lines 16-28: the recall model is unpickled, then
\* the precision model; either may raise, and then main's models stays unbound
LoadModels ==
    /\ ppc = "load"
    /\ UNCHANGED <<proofVars, overlap, fnVars, setupVars>>
    /\ \/ /\ models' = [recall |-> "loaded", precision |-> "loaded"]
          /\ ppc' = "banner"
          /\ UNCHANGED exc
       \/ /\ \E which \in {"recall model load error", "precision model load error"} :
                exc' = which
          /\ ppc' = "fatal"
          /\ UNCHANGED models
    /\ UNCHANGED <<lines, out, bridge_exit, write_failed, proba_calls>>

Banner_silent ==
    /\ ppc = "banner"
    /\ UNCHANGED <<proofVars, overlap, fnVars, setupVars>>
    /\ ppc' = "read"
    /\ UNCHANGED <<out, exc, write_failed>>
    /\ UNCHANGED <<proba_calls, models, lines, bridge_exit>>

\* line 70: the ready banner
Banner ==
    /\ ppc = "banner"
    /\ UNCHANGED <<proofVars, overlap, fnVars, setupVars>>
    /\ \/ /\ out' = Written("ready", "models: 2")
          /\ ppc' = "read"
          /\ UNCHANGED <<exc, write_failed>>
       \/ /\ exc' = "write error"
          /\ write_failed' = TRUE
          /\ ppc' = "fatal"
          /\ UNCHANGED out
    /\ UNCHANGED <<proba_calls, models, lines, bridge_exit>>

\* line 72: "for line in sys.stdin": the stream is at its end (main returns,
\* exit status 0), or yields its next line.  On bytes that are no text in its
\* encoding the stream raises UnicodeDecodeError when its error handler is
\* "strict", and yields them as lone surrogates, which json.loads rejects,
\* when it is "surrogateescape"; which one sys.stdin has depends on the
\* platform and the locale.  The for statement is outside the inner try.
ReadLine ==
    /\ ppc = "read"
    /\ UNCHANGED <<proofVars, overlap, fnVars, setupVars>>
    /\ \/ /\ ppc' = "exited"
          /\ bridge_exit' = 0
          /\ UNCHANGED <<lines, exc>>
       \/ /\ Len(lines) < MaxLines
          /\ \E l \in Lines :
                /\ lines' = Append(lines, l)
                /\ \/ /\ l.raw = "undecodable"
                      /\ exc' = "UnicodeDecodeError"
                      /\ ppc' = "fatal"
                   \/ /\ ppc' = "handle"
                      /\ UNCHANGED exc
          /\ UNCHANGED bridge_exit
    /\ UNCHANGED <<proba_calls, models, out, write_failed>>

\* predict, lines 44-48, as the loop sees it: the predict_proba calls made for
\* the line in hand, the recall model's first, each on the object main's
\* models holds under that key
ProbaCalls(n) ==
    SubSeq(<<[for |-> Len(lines), model |-> "recall", on |-> models.recall],
             [for |-> Len(lines), model |-> "precision",
              on |-> models.precision]>>, 1, n)

HandleLine_no_count_check ==
    /\ ppc = "handle"
    /\ UNCHANGED <<proofVars, overlap, fnVars, setupVars>>
    /\ LET l == Current
       IN IF l.raw = "blank"
          THEN ppc' = "read" /\ UNCHANGED <<exc, proba_calls>>
          ELSE IF l.json = "invalid"
          THEN /\ ppc' = "except_json" /\ exc' = "JSONDecodeError"
               /\ UNCHANGED proba_calls
          ELSE IF l.json # "object"
          THEN /\ ppc' = "except_exception" /\ exc' = "AttributeError"
               /\ UNCHANGED proba_calls
          ELSE IF l.features = "number"
          THEN /\ ppc' = "except_exception" /\ exc' = "TypeError"
               /\ UNCHANGED proba_calls
          ELSE IF l.scorable
          THEN /\ proba_calls' = proba_calls \o ProbaCalls(2)
               /\ ppc' = "emit_result" /\ UNCHANGED exc
          ELSE /\ \E n \in 0..2 : proba_calls' = proba_calls \o ProbaCalls(n)
               /\ ppc' = "except_exception" /\ exc' = "predict error"
    /\ UNCHANGED <<models, lines, out, bridge_exit, write_failed>>

\* lines 73-85: strip, skip a blank line, parse, take the features, test their
\* number, score.  predict raises from the reshape (no model called), from the
\* recall model's predict_proba or from the precision model's, or returns.
HandleLine ==
    /\ ppc = "handle"
    /\ UNCHANGED <<proofVars, overlap, fnVars, setupVars>>
    /\ LET l == Current
       IN IF l.raw = "blank"
          THEN ppc' = "read" /\ UNCHANGED <<exc, proba_calls>>
          ELSE IF l.json = "invalid"
          THEN /\ ppc' = "except_json" /\ exc' = "JSONDecodeError"
               /\ UNCHANGED proba_calls
          ELSE IF l.json # "object"
          THEN /\ ppc' = "except_exception" /\ exc' = "AttributeError"
               /\ UNCHANGED proba_calls
          ELSE IF l.features = "number"
          THEN /\ ppc' = "except_exception" /\ exc' = "TypeError"
               /\ UNCHANGED proba_calls
          ELSE IF l.n # ExpectedFeatures
          THEN ppc' = "emit_count" /\ UNCHANGED <<exc, proba_calls>>
          ELSE IF l.scorable
          THEN /\ proba_calls' = proba_calls \o ProbaCalls(2)
               /\ ppc' = "emit_result" /\ UNCHANGED exc
          ELSE /\ \E n \in 0..2 : proba_calls' = proba_calls \o ProbaCalls(n)
               /\ ppc' = "except_exception" /\ exc' = "predict error"
    /\ UNCHANGED <<models, lines, out, bridge_exit, write_failed>>

\* a print inside the inner try raised: "except Exception" (line 90) takes it
WriteRaisedInTry ==
    /\ exc' = "write error"
    /\ write_failed' = TRUE
    /\ ppc' = "except_exception"
    /\ UNCHANGED out

\* a print inside an inner except clause raised: the outer "except Exception"
\* (line 93) takes it
WriteRaisedInHandler ==
    /\ exc' = "write error"
    /\ write_failed' = TRUE
    /\ ppc' = "fatal"
    /\ UNCHANGED out

EmitCountError_no_continue ==
    /\ ppc = "emit_count"
    /\ UNCHANGED <<proofVars, overlap, fnVars, setupVars>>
    /\ \/ /\ out' = Written("error", "Expected 68 features")
          /\ ppc' = "emit_result"
          /\ UNCHANGED <<exc, write_failed>>
       \/ WriteRaisedInTry
    /\ UNCHANGED <<proba_calls, models, lines, bridge_exit>>

\* lines 82-83: the feature-count error, then "continue"
EmitCountError ==
    /\ ppc = "emit_count"
    /\ UNCHANGED <<proofVars, overlap, fnVars, setupVars>>
    /\ \/ /\ out' = Written("error", "Expected 68 features")
          /\ ppc' = "read"
          /\ UNCHANGED <<exc, write_failed>>
       \/ WriteRaisedInTry
    /\ UNCHANGED <<proba_calls, models, lines, bridge_exit>>

EmitPrediction_reloads ==
    /\ ppc = "emit_result"
    /\ UNCHANGED <<proofVars, overlap, fnVars, setupVars>>
    /\ \/ /\ out' = Written("prediction", "PredictionResult")
          /\ ppc' = "read"
          /\ UNCHANGED <<exc, write_failed>>
       \/ WriteRaisedInTry
    /\ models' = [recall |-> "reloaded", precision |-> "reloaded"]
    /\ UNCHANGED <<proba_calls, lines, bridge_exit>>

\* line 86: the prediction
EmitPrediction ==
    /\ ppc = "emit_result"
    /\ UNCHANGED <<proofVars, overlap, fnVars, setupVars>>
    /\ \/ /\ out' = Written("prediction", "PredictionResult")
          /\ ppc' = "read"
          /\ UNCHANGED <<exc, write_failed>>
       \/ WriteRaisedInTry
    /\ UNCHANGED <<proba_calls, models, lines, bridge_exit>>

\* lines 88-89
ExceptJSONDecodeError ==
    /\ ppc = "except_json"
    /\ UNCHANGED <<proofVars, overlap, fnVars, setupVars>>
    /\ \/ /\ out' = Written("error", "Invalid JSON")
          /\ ppc' = "read"
          /\ UNCHANGED <<exc, write_failed>>
       \/ WriteRaisedInHandler
    /\ UNCHANGED <<proba_calls, models, lines, bridge_exit>>

ExceptException_silent ==
    /\ ppc = "except_exception"
    /\ UNCHANGED <<proofVars, overlap, fnVars, setupVars>>
    /\ ppc' = "read"
    /\ UNCHANGED <<out, exc, write_failed>>
    /\ UNCHANGED <<proba_calls, models, lines, bridge_exit>>

\* lines 90-91
ExceptException ==
    /\ ppc = "except_exception"
    /\ UNCHANGED <<proofVars, overlap, fnVars, setupVars>>
    /\ \/ /\ out' = Written("error", exc)
          /\ ppc' = "read"
          /\ UNCHANGED <<exc, write_failed>>
       \/ WriteRaisedInHandler
    /\ UNCHANGED <<proba_calls, models, lines, bridge_exit>>

\* lines 93-95: the outer handler reports "Failed to load models" and exits
\* with status 1; if its print raises too, the process dies of the exception
Fatal ==
    /\ ppc = "fatal"
    /\ UNCHANGED <<proofVars, overlap, fnVars, setupVars>>
    /\ bridge_exit' = 1
    /\ \/ /\ out' = Written("error", "Failed to load models")
          /\ ppc' = "exited"
          /\ UNCHANGED write_failed
       \/ /\ write_failed' = TRUE
          /\ ppc' = "crashed"
          /\ UNCHANGED out
    /\ UNCHANGED <<proba_calls, models, lines, exc>>

----------------------------------------------------------------------------
(* predict and classify_severity *)

\* Probabilities are decimal fixed-point numbers: what a model's predict_proba
\* returns is counted in units of 1/ProbaUnits, the weights 0.7 and 0.3 in
\* units of 1/WeightUnits, and the ensemble probability and the thresholds it
\* is compared with in units of 1/(ProbaUnits * WeightUnits).
ProbaUnits == 1000
WeightUnits == 10
ProbabilityUnits == ProbaUnits * WeightUnits

WeightRecall == 7          \* 0.7 *
WeightPrecision == 3       \* 0.3 *
CriticalFrom == 5000       \* probability >= 0.50
HighFrom == 1500           \* probability >= 0.15
LowFrom == 70              \* probability >= 0.007
VulnerableFrom == 70       \* bool(probability >= 0.007)
Threshold == 70            \* 'threshold': 0.007

SmallProbas == 10          \* the predict_proba values 0..SmallProbas are tried

NoCall == [fn |-> "none"]
NoReturn == [kind |-> "none"]

classify_severity_exclusive(probability) ==
    IF probability > CriticalFrom
    THEN <<"CRITICAL",
           "High confidence exploit detected. Immediate review required.">>
    ELSE IF probability > HighFrom
    THEN <<"HIGH", "Suspicious patterns found. Manual review recommended.">>
    ELSE IF probability > LowFrom
    THEN <<"LOW", "Minor risk or code complexity warning.">>
    ELSE <<"SAFE", "No significant issues detected.">>

\* lines 30-39
classify_severity(probability) ==
    IF probability >= CriticalFrom
    THEN <<"CRITICAL",
           "High confidence exploit detected. Immediate review required.">>
    ELSE IF probability >= HighFrom
    THEN <<"HIGH", "Suspicious patterns found. Manual review recommended.">>
    ELSE IF probability >= LowFrom
    THEN <<"LOW", "Minor risk or code complexity warning.">>
    ELSE <<"SAFE", "No significant issues detected.">>

predict_strict_threshold(recall_proba, precision_proba) ==
    LET probability ==
            WeightRecall * recall_proba + WeightPrecision * precision_proba
        tier == classify_severity(probability)
    IN [probability |-> probability,
        recall_score |-> recall_proba,
        precision_score |-> precision_proba,
        is_vulnerable |-> probability > VulnerableFrom,
        severity |-> tier[1],
        severity_message |-> tier[2],
        threshold |-> Threshold]

predict_swapped_weights(recall_proba, precision_proba) ==
    LET probability ==
            WeightPrecision * recall_proba + WeightRecall * precision_proba
        tier == classify_severity(probability)
    IN [probability |-> probability,
        recall_score |-> recall_proba,
        precision_score |-> precision_proba,
        is_vulnerable |-> probability >= VulnerableFrom,
        severity |-> tier[1],
        severity_message |-> tier[2],
        threshold |-> Threshold]

\* lines 41-64.  models and features enter the result only through the two
\* values models['recall'].predict_proba(X)[0][1] and
\* models['precision'].predict_proba(X)[0][1], the operator's arguments.
predict(recall_proba, precision_proba) ==
    LET probability ==
            WeightRecall * recall_proba + WeightPrecision * precision_proba
        tier == classify_severity(probability)
    IN [probability |-> probability,
        recall_score |-> recall_proba,
        precision_score |-> precision_proba,
        is_vulnerable |-> probability >= VulnerableFrom,
        severity |-> tier[1],
        severity_message |-> tier[2],
        threshold |-> Threshold]

\* the values tried for a predict_proba result: the small ones, and those at
\* and next to the values at which two equal results reach a tier or the end
\* of the range
Probas ==
    {x \in 0..ProbaUnits :
        \/ x <= SmallProbas
        \/ \E edge \in {HighFrom \div WeightUnits, CriticalFrom \div WeightUnits,
                         ProbaUnits} :
              x \in (edge - 1)..(edge + 1)}

ScoreCalls ==
    {[fn |-> "classify_severity", probability |-> x] :
        x \in 0..ProbabilityUnits}
    \cup {[fn |-> "predict", recall_proba |-> r, precision_proba |-> p] :
             r \in Probas, p \in Probas}

\* classify_severity called with a probability
ClassifySeverity ==
    /\ call.fn = "classify_severity"
    /\ returned = NoReturn
    /\ returned' = [kind |-> "severity",
                    value |-> classify_severity(call.probability)]
    /\ UNCHANGED <<proofVars, pipeVars, overlap, setupVars, call, embedVars>>

\* predict called with models that answer recall_proba and precision_proba
Predict ==
    /\ call.fn = "predict"
    /\ returned = NoReturn
    /\ returned' = [kind |-> "prediction",
                    value |-> predict(call.recall_proba, call.precision_proba)]
    /\ UNCHANGED <<proofVars, pipeVars, overlap, setupVars, call, embedVars>>

NoText == <<>>
NoSeed == -1
\* the generator as the interpreter starts it: seeded by the operating system
Unseeded == [seed |-> NoSeed, pos |-> 0]

\* nothing calls predict, classify_severity or output_to_embeddings
NoCalls ==
    /\ call = NoCall
    /\ returned = NoReturn
    /\ rng = Unseeded
    /\ subject = NoText
    /\ emb_calls = <<>>
    /\ rng_uses = 0

----------------------------------------------------------------------------
(* SCRIPT_DIR as the requests find it *)

NoScript ==
    /\ script = "none"
    /\ spc = "idle"
    /\ step = 0
    /\ steps_run = <<>>
    /\ verified = "unset"
    /\ said = <<>>
    /\ ret = "unset"
    /\ script_exit = Running

\* a directory in which every file the requests read has been put, the
\* structured reference string under the name line 19 gives it; no setup
\* script is run
ByHand == [n \in DurableNames |->
              IF n \in RequestArtifacts THEN "by hand" ELSE Absent]

Provisioned ==
    /\ durable = ByHand
    /\ loop = FALSE
    /\ NoScript

----------------------------------------------------------------------------
(* The setup scripts: full_ezkl_pipeline.py, gen_proof.py, ezkl_wsl_setup.py *)

\* lines 17 of full_ezkl_pipeline.py, 14 of gen_proof.py, 20 of
\* ezkl_wsl_setup.py and 8 of setup_srs.py: where the setup scripts put the
\* structured reference string and look for it
Setup_SRS_PATH == "kzg.srs"

\* a step of a script: the durable files it reads and writes, and whether it
\* is the call of ezkl.verify
StepOf(name, reads, writes, verifies) ==
    [name |-> name, reads |-> reads, writes |-> writes, verifies |-> verifies]

\* full_ezkl_pipeline.py, lines 24-240 and 250-261
FullPipelineSteps ==
    <<StepOf("step1_create_model", {}, {"sentiment.onnx"}, FALSE),
      StepOf("step2_create_input", {}, {"input.json"}, FALSE),
      StepOf("step3_gen_settings", {"sentiment.onnx"}, {SETTINGS_PATH}, FALSE),
      StepOf("step4_compile", {"sentiment.onnx", SETTINGS_PATH},
             {COMPILED_PATH}, FALSE),
      StepOf("step5_get_srs", {}, {Setup_SRS_PATH}, FALSE),
      StepOf("step6_setup", {COMPILED_PATH, Setup_SRS_PATH},
             {VK_PATH, PK_PATH}, FALSE),
      StepOf("step7_witness", {"input.json", COMPILED_PATH},
             {"witness.json"}, FALSE),
      StepOf("step8_prove",
             {"witness.json", COMPILED_PATH, PK_PATH, Setup_SRS_PATH},
             {"proof.json"}, FALSE),
      StepOf("step9_verify",
             {"proof.json", SETTINGS_PATH, VK_PATH, Setup_SRS_PATH}, {}, TRUE),
      StepOf("step10_solidity", {VK_PATH, SETTINGS_PATH, Setup_SRS_PATH},
             {"Verifier.sol"}, FALSE)>>

\* gen_proof.py, main, lines 26-70
GenProofSteps ==
    <<StepOf("input", {}, {"input.json"}, FALSE),
      StepOf("gen_witness", {"input.json", COMPILED_PATH},
             {"witness.json"}, FALSE),
      StepOf("prove",
             {"witness.json", COMPILED_PATH, PK_PATH, Setup_SRS_PATH},
             {"proof.json"}, FALSE),
      StepOf("verify",
             {"proof.json", SETTINGS_PATH, VK_PATH, Setup_SRS_PATH}, {}, TRUE),
      StepOf("create_evm_verifier",
             {VK_PATH, SETTINGS_PATH, Setup_SRS_PATH}, {"Verifier.sol"},
             FALSE)>>

\* ezkl_wsl_setup.py, main, lines 198-210: create_onnx_model,
\* create_input_data, the four engine calls of setup_ezkl, the three of
\* generate_proof, generate_solidity_verifier
WslSetupSteps ==
    <<StepOf("create_onnx_model", {}, {"sentiment.onnx"}, FALSE),
      StepOf("create_input_data", {}, {"calibration.json", "input.json"},
             FALSE),
      StepOf("gen_settings", {"sentiment.onnx"}, {SETTINGS_PATH}, FALSE),
      StepOf("compile_circuit", {"sentiment.onnx", SETTINGS_PATH},
             {COMPILED_PATH}, FALSE),
      StepOf("get_srs", {}, {Setup_SRS_PATH}, FALSE),
      StepOf("setup", {COMPILED_PATH, Setup_SRS_PATH}, {VK_PATH, PK_PATH},
             FALSE),
      StepOf("gen_witness", {"input.json", COMPILED_PATH}, {"witness.json"},
             FALSE),
      StepOf("prove",
             {"witness.json", COMPILED_PATH, PK_PATH, Setup_SRS_PATH},
             {"proof.json"}, FALSE),
      StepOf("verify",
             {"proof.json", SETTINGS_PATH, VK_PATH, Setup_SRS_PATH}, {}, TRUE),
      StepOf("generate_solidity_verifier",
             {VK_PATH, SETTINGS_PATH, Setup_SRS_PATH}, {"Verifier.sol"},
             FALSE)>>

Scripts == {"full_ezkl_pipeline", "gen_proof", "ezkl_wsl_setup", "setup_ezkl"}

\* the step returns: the files it reads are there, the files it writes are
\* the script's afterwards, and ezkl.verify has answered if it is that call
Completes(s) ==
    /\ Present(s.reads)
    /\ durable' = [n \in DurableNames |->
                      IF n \in s.writes THEN script ELSE durable[n]]
    /\ steps_run' = Append(steps_run, [name |-> s.name, outcome |-> "done"])
    /\ IF s.verifies
       THEN \E v \in {"true", "false"} : verified' = v
       ELSE UNCHANGED verified

\* the step raises, as it does when a file it reads is missing
Raises(s) ==
    /\ steps_run' = Append(steps_run, [name |-> s.name, outcome |-> "raised"])
    /\ UNCHANGED <<durable, verified>>

\* full_ezkl_pipeline.main, lines 249-258 and 261: the next step of the try
\* block
PipelineStep ==
    /\ script = "full_ezkl_pipeline"
    /\ spc = "steps"
    /\ LET s == FullPipelineSteps[step]
       IN \/ /\ Completes(s)
             /\ IF s.verifies
                THEN spc' = "branch" /\ UNCHANGED step
                ELSE IF step = Len(FullPipelineSteps)
                THEN spc' = "success" /\ UNCHANGED step
                ELSE step' = step + 1 /\ UNCHANGED spc
          \/ /\ Raises(s)
             /\ spc' = "except"
             /\ UNCHANGED step
    /\ UNCHANGED <<loop, script, said, ret, script_exit>>
    /\ UNCHANGED <<proofVars, pipeVars, overlap, fnVars>>

PipelineBranch_unconditional ==
    /\ script = "full_ezkl_pipeline"
    /\ spc = "branch"
    /\ step' = step + 1 /\ spc' = "steps"
    /\ UNCHANGED <<durable, loop, script, steps_run, verified, said, ret,
                   script_exit>>
    /\ UNCHANGED <<proofVars, pipeVars, overlap, fnVars>>

\* line 260: "if verified:"
PipelineBranch ==
    /\ script = "full_ezkl_pipeline"
    /\ spc = "branch"
    /\ IF verified = "true"
       THEN step' = step + 1 /\ spc' = "steps"
       ELSE spc' = "failed" /\ UNCHANGED step
    /\ UNCHANGED <<durable, loop, script, steps_run, verified, said, ret,
                   script_exit>>
    /\ UNCHANGED <<proofVars, pipeVars, overlap, fnVars>>

\* what a script prints as its verdict and what its main returns
Verdict(at, words, value) ==
    /\ spc = at
    /\ said' = Append(said, words)
    /\ ret' = value
    /\ spc' = "exit"
    /\ UNCHANGED <<durable, loop, script, step, steps_run, verified,
                   script_exit>>
    /\ UNCHANGED <<proofVars, pipeVars, overlap, fnVars>>

\* lines 263-277
PipelineSuccess ==
    script = "full_ezkl_pipeline" /\ Verdict("success", "SUCCESS", "True")

\* lines 278-280
PipelineFailed ==
    script = "full_ezkl_pipeline"
        /\ Verdict("failed", "Verification failed", "False")

\* lines 282-286
PipelineExcept ==
    script = "full_ezkl_pipeline" /\ Verdict("except", "Error", "False")

\* lines 290-291: exit(0 if success else 1)
PipelineExit ==
    /\ script = "full_ezkl_pipeline"
    /\ spc = "exit"
    /\ script_exit' = (IF ret = "True" THEN 0 ELSE 1)
    /\ spc' = "exited"
    /\ UNCHANGED <<durable, loop, script, step, steps_run, verified, said,
                   ret>>
    /\ UNCHANGED <<proofVars, pipeVars, overlap, fnVars>>

\* gen_proof.main, lines 26-70: the next step; there is no try block, an
\* exception ends the process with a traceback
GenProofStep ==
    /\ script = "gen_proof"
    /\ spc = "steps"
    /\ LET s == GenProofSteps[step]
       IN \/ /\ Completes(s)
             /\ IF step = Len(GenProofSteps)
                THEN spc' = "success" /\ UNCHANGED step
                ELSE step' = step + 1 /\ UNCHANGED spc
             /\ UNCHANGED <<ret, script_exit>>
          \/ /\ Raises(s)
             /\ ret' = "raised"
             /\ script_exit' = 1
             /\ spc' = "exited"
             /\ UNCHANGED step
    /\ UNCHANGED <<loop, script, said>>
    /\ UNCHANGED <<proofVars, pipeVars, overlap, fnVars>>

\* gen_proof.main, lines 72-87, and line 90: the verdict, the proof's
\* structure, the end of the process
GenProofSuccess ==
    /\ script = "gen_proof"
    /\ spc = "success"
    /\ said' = Append(said, "SUCCESS")
    /\ ret' = "None"
    /\ script_exit' = 0
    /\ spc' = "exited"
    /\ UNCHANGED <<durable, loop, script, step, steps_run, verified>>
    /\ UNCHANGED <<proofVars, pipeVars, overlap, fnVars>>

\* ezkl_wsl_setup.main, lines 196-210: the next step of the try block
WslStep ==
    /\ script = "ezkl_wsl_setup"
    /\ spc = "steps"
    /\ LET s == WslSetupSteps[step]
       IN \/ /\ Completes(s)
             /\ IF step = Len(WslSetupSteps)
                THEN spc' = "success" /\ UNCHANGED step
                ELSE step' = step + 1 /\ UNCHANGED spc
          \/ /\ Raises(s)
             /\ spc' = "except"
             /\ UNCHANGED step
    /\ UNCHANGED <<loop, script, said, ret, script_exit>>
    /\ UNCHANGED <<proofVars, pipeVars, overlap, fnVars>>

\* lines 212-226
WslSuccess ==
    script = "ezkl_wsl_setup" /\ Verdict("success", "SUCCESS", "True")

\* lines 228-232
WslExcept ==
    script = "ezkl_wsl_setup" /\ Verdict("except", "Error", "False")

\* lines 235-236: asyncio.run(main()), whose value is dropped
WslExit ==
    /\ script = "ezkl_wsl_setup"
    /\ spc = "exit"
    /\ script_exit' = 0
    /\ spc' = "exited"
    /\ UNCHANGED <<durable, loop, script, step, steps_run, verified, said,
                   ret>>
    /\ UNCHANGED <<proofVars, pipeVars, overlap, fnVars>>

----------------------------------------------------------------------------
(* setup_ezkl.py *)

\* setup_ezkl, lines 161-177: the engine calls before the test for the
\* structured reference string
SetupEzklSteps ==
    <<StepOf("gen_settings", {"sentiment.onnx"}, {SETTINGS_PATH}, FALSE),
      StepOf("calibrate_settings",
             {"calibration.json", "sentiment.onnx", SETTINGS_PATH},
             {SETTINGS_PATH}, FALSE),
      StepOf("compile_circuit", {"sentiment.onnx", SETTINGS_PATH},
             {COMPILED_PATH}, FALSE)>>

\* test_proof_generation, lines 203-257
TestProofSteps ==
    <<StepOf("test_input", {}, {"test_input.json"}, FALSE),
      StepOf("gen_witness", {"test_input.json", COMPILED_PATH},
             {"witness.json"}, FALSE),
      StepOf("prove", {"witness.json", COMPILED_PATH, PK_PATH},
             {"proof.json"}, FALSE),
      StepOf("verify", {"proof.json", SETTINGS_PATH, VK_PATH}, {}, TRUE)>>

\* a step main guards with os.path.exists: what it found and what came of it
Guarded(name, existed, outcome) ==
    steps_run' = Append(steps_run, [name |-> name, existed |-> existed,
                                    outcome |-> outcome])

\* an exception nothing catches: the process ends with a traceback
Crash ==
    /\ ret' = "raised"
    /\ script_exit' = 1
    /\ spc' = "exited"

\* main, lines 284-289: create_onnx_model unless the ONNX file exists; it
\* returns True, returns False when neither torch nor onnx can be imported
\* (lines 75-77, 125-127), or raises
SetupEzklModel ==
    /\ script = "setup_ezkl"
    /\ spc = "model"
    /\ LET existed == durable["sentiment.onnx"] # Absent
       IN IF existed
          THEN /\ Guarded("create_onnx_model", existed, "skipped")
               /\ spc' = "calibration"
               /\ UNCHANGED <<durable, said, ret, script_exit>>
          ELSE \/ /\ Guarded("create_onnx_model", existed, "True")
                  /\ durable' = [durable EXCEPT !["sentiment.onnx"] = script]
                  /\ spc' = "calibration"
                  /\ UNCHANGED <<said, ret, script_exit>>
               \/ /\ Guarded("create_onnx_model", existed, "False")
                  /\ said' = Append(said, "Failed to create ONNX model")
                  /\ ret' = "False"
                  /\ spc' = "exit"
                  /\ UNCHANGED <<durable, script_exit>>
               \/ /\ Guarded("create_onnx_model", existed, "raised")
                  /\ Crash
                  /\ UNCHANGED <<durable, said>>
    /\ UNCHANGED <<loop, script, step, verified>>
    /\ UNCHANGED <<proofVars, pipeVars, overlap, fnVars>>

\* main, lines 292-295: create_calibration_data unless its file exists
SetupEzklCalibration ==
    /\ script = "setup_ezkl"
    /\ spc = "calibration"
    /\ LET existed == durable["calibration.json"] # Absent
       IN IF existed
          THEN /\ Guarded("create_calibration_data", existed, "skipped")
               /\ spc' = "keys"
               /\ UNCHANGED <<durable, ret, script_exit>>
          ELSE \/ /\ Guarded("create_calibration_data", existed, "True")
                  /\ durable' = [durable EXCEPT !["calibration.json"] = script]
                  /\ spc' = "keys"
                  /\ UNCHANGED <<ret, script_exit>>
               \/ /\ Guarded("create_calibration_data", existed, "raised")
                  /\ Crash
                  /\ UNCHANGED durable
    /\ UNCHANGED <<loop, script, step, verified, said>>
    /\ UNCHANGED <<proofVars, pipeVars, overlap, fnVars>>

\* main, lines 298-301: setup_ezkl is entered unless the proving key exists
SetupEzklKeys ==
    /\ script = "setup_ezkl"
    /\ spc = "keys"
    /\ IF durable[PK_PATH] # Absent
       THEN /\ Guarded("setup_ezkl", TRUE, "skipped")
            /\ spc' = "test_steps"
       ELSE /\ spc' = "setup_steps"
            /\ UNCHANGED steps_run
    /\ step' = 1
    /\ UNCHANGED <<durable, loop, script, verified, said, ret, script_exit>>
    /\ UNCHANGED <<proofVars, pipeVars, overlap, fnVars>>

\* setup_ezkl, lines 161-177: the next engine call; there is no try block
SetupEzklStep ==
    /\ script = "setup_ezkl"
    /\ spc = "setup_steps"
    /\ LET s == SetupEzklSteps[step]
       IN \/ /\ Completes(s)
             /\ IF step = Len(SetupEzklSteps)
                THEN spc' = "srs_check" /\ UNCHANGED step
                ELSE step' = step + 1 /\ UNCHANGED spc
             /\ UNCHANGED <<ret, script_exit>>
          \/ /\ Raises(s)
             /\ Crash
             /\ UNCHANGED step
    /\ UNCHANGED <<loop, script, said>>
    /\ UNCHANGED <<proofVars, pipeVars, overlap, fnVars>>

\* setup_ezkl, lines 181-188: without the file kzg.srs the function returns
\* False; main, line 299, awaits the call as a statement and drops the value,
\* so the next thing it does is line 304
SetupEzklSrsCheck ==
    /\ script = "setup_ezkl"
    /\ spc = "srs_check"
    /\ IF durable[Setup_SRS_PATH] = Absent
       THEN /\ Guarded("setup_ezkl", FALSE, "False")
            /\ spc' = "test_steps"
            /\ step' = 1
       ELSE /\ spc' = "setup"
            /\ UNCHANGED <<steps_run, step>>
    /\ UNCHANGED <<durable, loop, script, verified, said, ret, script_exit>>
    /\ UNCHANGED <<proofVars, pipeVars, overlap, fnVars>>

\* setup_ezkl, lines 192-195: ezkl.setup writes the two keys and the function
\* returns True, or the call raises
SetupEzklSetup ==
    /\ script = "setup_ezkl"
    /\ spc = "setup"
    /\ \/ /\ Present({COMPILED_PATH, Setup_SRS_PATH})
          /\ durable' = [n \in DurableNames |->
                            IF n \in {VK_PATH, PK_PATH} THEN script
                            ELSE durable[n]]
          /\ Guarded("setup_ezkl", FALSE, "True")
          /\ spc' = "test_steps"
          /\ step' = 1
          /\ UNCHANGED <<ret, script_exit>>
       \/ /\ Guarded("setup_ezkl", FALSE, "raised")
          /\ Crash
          /\ UNCHANGED <<durable, step>>
    /\ UNCHANGED <<loop, script, verified, said>>
    /\ UNCHANGED <<proofVars, pipeVars, overlap, fnVars>>

\* main, line 304, and test_proof_generation, lines 203-257: the next step
SetupEzklTestStep ==
    /\ script = "setup_ezkl"
    /\ spc = "test_steps"
    /\ LET s == TestProofSteps[step]
       IN \/ /\ Completes(s)
             /\ IF step = Len(TestProofSteps)
                THEN spc' = "result" /\ UNCHANGED step
                ELSE step' = step + 1 /\ UNCHANGED spc
             /\ UNCHANGED <<ret, script_exit>>
          \/ /\ Raises(s)
             /\ Crash
             /\ UNCHANGED step
    /\ UNCHANGED <<loop, script, said>>
    /\ UNCHANGED <<proofVars, pipeVars, overlap, fnVars>>

\* main, lines 306-317: the Solidity verifier if the test verified, then the
\* verdict
SetupEzklResult ==
    /\ script = "setup_ezkl"
    /\ spc = "result"
    /\ IF verified = "true"
       THEN LET s == StepOf("generate_solidity_verifier",
                            {VK_PATH, SETTINGS_PATH}, {"Verifier.sol"}, FALSE)
            IN \/ /\ Completes(s)
                  /\ said' = Append(said, "SETUP COMPLETE")
                  /\ ret' = "True"
                  /\ spc' = "exit"
                  /\ UNCHANGED script_exit
               \/ /\ Raises(s)
                  /\ Crash
                  /\ UNCHANGED said
       ELSE /\ said' = Append(said, "SETUP FAILED")
            /\ ret' = "False"
            /\ spc' = "exit"
            /\ UNCHANGED <<durable, steps_run, verified, script_exit>>
    /\ UNCHANGED <<loop, script, step>>
    /\ UNCHANGED <<proofVars, pipeVars, overlap, fnVars>>

\* lines 320-321: asyncio.run(main()), whose value is dropped
SetupEzklExit ==
    /\ script = "setup_ezkl"
    /\ spc = "exit"
    /\ script_exit' = 0
    /\ spc' = "exited"
    /\ UNCHANGED <<durable, loop, script, step, steps_run, verified, said,
                   ret>>
    /\ UNCHANGED <<proofVars, pipeVars, overlap, fnVars>>

\* SCRIPT_DIR of a fresh checkout, the same with the structured reference
\* string downloaded to kzg.srs, and as a run of full_ezkl_pipeline.py that
\* went through leaves it
Fresh == [n \in DurableNames |-> Absent]
SrsDownloaded == [Fresh EXCEPT ![Setup_SRS_PATH] = "by hand"]
SetUpBefore ==
    [n \in DurableNames |->
        IF \E i \in 1..Len(FullPipelineSteps) : n \in FullPipelineSteps[i].writes
        THEN "an earlier setup" ELSE Absent]

----------------------------------------------------------------------------
(* Specifications *)

RequestStep ==
    \E r \in Reqs :
        \/ Usage(r)
        \/ Start(r)
        \/ BuildInput(r)
        \/ GenWitness(r)
        \/ ReadWitness(r)
        \/ Prove(r)
        \/ ReadProof(r)
        \/ Verify(r)
        \/ Cleanup(r)
        \/ Return(r)
        \/ PrintResult(r)

\* one-shot invocations, one after the other
Init ==
    /\ InitRequests
    /\ Provisioned
    /\ argv \in [Reqs -> Texts \cup {NoArg}]
    /\ InitBridge
    /\ overlap = FALSE
    /\ NoCalls

Next == RequestStep

Spec == Init /\ [][Next]_vars

\* one-shot invocations that overlap.  The processes are interchangeable, so
\* their arguments are taken in non-decreasing order.
InitConcurrent ==
    /\ InitRequests
    /\ Provisioned
    /\ argv \in [Reqs -> Texts \cup {NoArg}]
    /\ \A r \in Reqs : r + 1 \in Reqs => argv[r] <= argv[r + 1]
    /\ InitBridge
    /\ overlap = TRUE
    /\ NoCalls

SpecConcurrent == InitConcurrent /\ [][Next]_vars

\* the pipe-mode process
InitPipe ==
    /\ InitRequests
    /\ Provisioned
    /\ argv = [r \in Reqs |-> NoArg]
    /\ InitBridge
    /\ overlap = FALSE
    /\ NoCalls

NextPipe ==
    \/ LoadModels
    \/ Banner
    \/ ReadLine
    \/ HandleLine
    \/ EmitCountError
    \/ EmitPrediction
    \/ ExceptJSONDecodeError
    \/ ExceptException
    \/ Fatal

SpecPipe == InitPipe /\ [][NextPipe]_vars

\* predict and classify_severity, each called once on arguments of its domain
InitScore ==
    /\ InitRequests
    /\ Provisioned
    /\ argv = [r \in Reqs |-> NoArg]
    /\ InitBridge
    /\ overlap = FALSE
    /\ call \in ScoreCalls
    /\ returned = NoReturn
    /\ rng = Unseeded
    /\ subject = NoText
    /\ emb_calls = <<>>
    /\ rng_uses = 0

NextScore ==
    \/ ClassifySeverity
    \/ Predict

SpecScore == InitScore /\ [][NextScore]_vars

\* output_to_embeddings called, in one process, on a text and on the text with
\* one more occurrence of a list word, among other uses of np.random
InitEmbed ==
    /\ InitRequests
    /\ Provisioned
    /\ argv = [r \in Reqs |-> NoArg]
    /\ InitBridge
    /\ overlap = FALSE
    /\ call = NoCall
    /\ returned = NoReturn
    /\ rng = Unseeded
    /\ subject \in [text : EmbedTexts,
                     word : {Vocabulary[i] : i \in 1..Len(Vocabulary)}]
    /\ emb_calls = <<>>
    /\ rng_uses = 0

NextEmbed ==
    \/ Embed
    \/ OtherRandomUse

SpecEmbed == InitEmbed /\ [][NextEmbed]_vars

\* the body of generate_fresh_proof run by request r
CoroutineStep(r) ==
    \/ Start(r)
    \/ BuildInput(r)
    \/ GenWitness(r)
    \/ ReadWitness(r)
    \/ Prove(r)
    \/ ReadProof(r)
    \/ Verify(r)
    \/ Cleanup(r)
    \/ Return(r)

\* requests made within one process: the caller has created a coroutine
\* generate_fresh_proof(text) for each and handed them all to one event loop
InitEventLoop ==
    /\ InitRequests
    /\ durable = ByHand
    /\ NoScript
    /\ loop = TRUE
    /\ argv \in [Reqs -> Texts]
    /\ \A r \in Reqs : r + 1 \in Reqs => argv[r] <= argv[r + 1]
    /\ InitBridge
    /\ overlap = TRUE
    /\ NoCalls

NextEventLoop == \E r \in Reqs : CoroutineStep(r)

SpecEventLoop == InitEventLoop /\ [][NextEventLoop]_vars

\* a setup script is run in SCRIPT_DIR, then the first one-shot request is
\* made
InitSetup ==
    /\ InitRequests
    /\ durable \in {Fresh, SrsDownloaded, ByHand, SetUpBefore}
    /\ loop = FALSE
    /\ script \in Scripts
    /\ spc = (IF script = "setup_ezkl" THEN "model" ELSE "steps")
    /\ step = 1
    /\ steps_run = <<>>
    /\ verified = "unset"
    /\ said = <<>>
    /\ ret = "unset"
    /\ script_exit = Running
    /\ argv \in [Reqs -> Texts \cup {NoArg}]
    /\ \A r \in Reqs : r > 1 => argv[r] = NoArg
    /\ InitBridge
    /\ overlap = FALSE
    /\ NoCalls

NextSetup ==
    \/ PipelineStep
    \/ PipelineBranch
    \/ PipelineSuccess
    \/ PipelineFailed
    \/ PipelineExcept
    \/ PipelineExit
    \/ GenProofStep
    \/ GenProofSuccess
    \/ WslStep
    \/ WslSuccess
    \/ WslExcept
    \/ WslExit
    \/ SetupEzklModel
    \/ SetupEzklCalibration
    \/ SetupEzklKeys
    \/ SetupEzklStep
    \/ SetupEzklSrsCheck
    \/ SetupEzklSetup
    \/ SetupEzklTestStep
    \/ SetupEzklResult
    \/ SetupEzklExit
    \/ RequestStep

SpecSetup == InitSetup /\ [][NextSetup]_vars

----------------------------------------------------------------------------
(* Properties of the proof pipeline *)

IsPrefix(s, t) == Len(s) <= Len(t) /\ SubSeq(t, 1, Len(s)) = s

\* process r was given a text that generate_fresh_proof could digest
Handled(r) == argv[r] # NoArg /\ Encodable(argv[r])

\* generate_fresh_proof of process r is over: it returned or it raised
Over(r) == Handled(r) /\ pc[r] \in {"print", "done", "crashed"}

TransientFiles(r) == {paths(r)[k] : k \in Kinds}

\* C1: when generate_fresh_proof leaves its cleanup loop for good, by
\* returning or by raising, none of the request's three transient files
\* exists, whichever stage failed or none.
C1_NoTransientFileLeft ==
    [][\A r \in Reqs :
          (pc[r] = "cleanup" /\ pc'[r] \in {"return", "crashed"})
              => \A p \in TransientFiles(r) : fs'[p] = NoFile]_vars

\* C2: within one request the stages are entered in the order EMBED,
\* BUILD_INPUT, GEN_WITNESS, GEN_PROOF, LOCAL_VERIFY, and a stage is entered
\* only when every earlier stage of the request completed without error.
C2_StagesInOrder ==
    \A r \in Reqs :
        /\ IsPrefix(invoked[r], StageOrder)
        /\ IsPrefix(completed[r], invoked[r])
        /\ Len(invoked[r]) <= Len(completed[r]) + 1

\* a request that ran all five stages and one whose witness generation
\* failed have both finished
C2_Witness ==
    \E r, q \in Reqs :
        /\ pc[r] = "done" /\ completed[r] = StageOrder
        /\ pc[q] = "done"
        /\ invoked[q] = SubSeq(StageOrder, 1, 3)
        /\ completed[q] = SubSeq(StageOrder, 1, 2)

\* C3: a failure to delete a transient file never changes the outcome: the
\* caller gets a returned record, never an exception; it is the success
\* record exactly when all five stages completed; and a failure record never
\* carries the deletion's error.
C3_DeletionFailureHarmless ==
    \A r \in Reqs :
        Over(r) =>
            /\ result[r].kind = "returned"
            /\ result[r].success <=> (completed[r] = StageOrder)
            /\ ~result[r].success => result[r].error # "remove error"

\* C4: when every stage completed and the verifier answered false, the
\* returned record has success = true and verified = false, with the proof
\* and the digest of the text.
C4_NegativeVerificationIsSuccess ==
    \A r \in Reqs :
        (Over(r) /\ completed[r] = StageOrder /\ ~verify_res[r]) =>
            /\ result[r].kind = "returned"
            /\ result[r].success
            /\ ~result[r].verified
            /\ result[r].proof = proof_data[r]
            /\ result[r].proof # NoFile
            /\ result[r].outputHash = Sha256(argv[r])

EngineFailedAt(r, stage) ==
    /\ Len(invoked[r]) = Len(completed[r]) + 1
    /\ invoked[r][Len(invoked[r])] = stage

\* C5: if GEN_WITNESS or GEN_PROOF fails no later stage is entered and the
\* record returned is {success: false, error: the engine's message,
\* outputHash: the digest of the text}; a returned record has success = true
\* only if all five stages completed, and its outputHash is the digest.
C5_EngineFailureAborts ==
    \A r \in Reqs :
        Over(r) =>
            /\ EngineFailedAt(r, "GEN_WITNESS") =>
                  /\ result[r].kind = "returned"
                  /\ ~result[r].success
                  /\ result[r].error = "gen_witness error"
            /\ EngineFailedAt(r, "GEN_PROOF") =>
                  /\ result[r].kind = "returned"
                  /\ ~result[r].success
                  /\ result[r].error = "prove error"
            /\ result[r].kind = "returned" =>
                  /\ result[r].success => completed[r] = StageOrder
                  /\ result[r].outputHash = Sha256(argv[r])

InFlight(r) ==
    Handled(r) /\ pc[r] \notin {"main", "exit", "done", "crashed"}

\* C6: two requests in flight at once on texts whose digests differ have
\* disjoint sets of transient paths.
C6_DistinctDigestsDistinctPaths ==
    \A r, q \in Reqs :
        (r # q /\ InFlight(r) /\ InFlight(q)
              /\ Sha256(argv[r]) # Sha256(argv[q]))
            => TransientFiles(r) \cap TransientFiles(q) = {}

Own(r) == [by |-> r, of |-> argv[r]]

\* C7: between its BUILD_INPUT stage and its own cleanup a request finds at
\* its paths the files it wrote itself, neither overwritten nor deleted by
\* another request, and the proof it returns is the one it generated.
C7_TransientFilesExclusivelyOwned ==
    \A r \in Reqs :
        Handled(r) =>
            /\ pc[r] \in {"gen_witness", "read_witness", "prove", "read_proof",
                          "verify"}
                  => fs[paths(r)["input"]] = Own(r)
            /\ pc[r] \in {"read_witness", "prove", "read_proof", "verify"}
                  => fs[paths(r)["witness"]] = Own(r)
            /\ pc[r] \in {"read_proof", "verify"}
                  => fs[paths(r)["proof"]] = Own(r)
            /\ (pc[r] \in {"print", "done"} /\ result[r].success)
                  => result[r].proof = Own(r)

\* C8: a process given a text argument has written nothing to stdout while
\* it runs the pipeline and exactly one record, the ProofResult, when it has
\* exited.
C8_OneRecordOnStdout ==
    \A r \in Reqs :
        argv[r] # NoArg =>
            /\ ~Exited(r) => stdout[r] = <<>>
            /\ Exited(r) =>
                  /\ Len(stdout[r]) = 1
                  /\ stdout[r][1].kind = "returned"

----------------------------------------------------------------------------
(* Properties of the pipe-mode loop *)

\* a line that is no well-formed request: bytes that decode to no text,
\* malformed JSON, JSON of the wrong shape, the wrong feature count,
\* features that make scoring raise
IsBadLine(l) ==
    /\ l.raw # "blank"
    /\ ~(l.json = "object" /\ l.features = "list" /\ l.n = ExpectedFeatures
           /\ l.scorable)

\* the responses written after the banner, and the lines they answer
Responses == SelectSeq(out, LAMBDA o : o.for > 0)
Answered == [j \in 1..Len(Responses) |-> Responses[j].for]

RECURSIVE NonBlank(_, _)
\* the indices i <= n of the lines that are not empty after strip(), ascending
NonBlank(ls, n) ==
    IF n = 0 THEN <<>>
    ELSE IF ls[n].raw = "blank" THEN NonBlank(ls, n - 1)
    ELSE Append(NonBlank(ls, n - 1), n)

\* C9: while writing to stdout works, a bad line is answered by one error
\* record and the loop goes on: the process does not leave the loop for the
\* outer handler, and once back at the head of the loop the line has exactly
\* one response.
C9_BadLineKeepsServing ==
    (Len(lines) > 0 /\ IsBadLine(Current) /\ ~write_failed) =>
        /\ ppc \notin {"fatal", "crashed"}
        /\ bridge_exit # 1
        /\ ppc = "read" =>
              /\ Len(Responses) > 0
              /\ Responses[Len(Responses)].for = Len(lines)
              /\ Responses[Len(Responses)].kind = "error"

\* C10, as claimed: at the head of the loop and at exit every line read so
\* far has exactly one response, in the order of the lines.
C10_EveryLineAnswered ==
    ppc \in {"read", "exited"} => Answered = [j \in 1..Len(lines) |-> j]

\* C10, amended: at the head of the loop and at exit every line read so far
\* that is not empty after strip() has exactly one response, in the order of
\* the lines, and a blank line has none; while a line is being handled the
\* responses are those of the earlier lines, followed by at most one for the
\* line in hand.
C10_EveryNonBlankLineAnswered ==
    /\ ppc \in {"read", "exited"} => Answered = NonBlank(lines, Len(lines))
    /\ Len(lines) > 0 =>
          \/ Answered = NonBlank(lines, Len(lines) - 1)
          \/ Answered = Append(NonBlank(lines, Len(lines) - 1), Len(lines))

\* three lines were read, the second of them blank, and the loop is back at
\* its head with the two responses
C10_Witness ==
    /\ ppc = "read"
    /\ Len(lines) = 3
    /\ lines[2].raw = "blank"
    /\ Answered = <<1, 3>>

\* a request whose features have a length, and it is not 68: a list of
\* another length, or no 'features' key (the default [] of length 0)
WrongCount(l) ==
    /\ l.raw = "text" /\ l.json = "object"
    /\ l.features \in {"absent", "list"}
    /\ l.n # ExpectedFeatures

LoadedModels == [recall |-> "loaded", precision |-> "loaded"]

\* C11: a request whose features have a length other than 68 never has
\* predict_proba called for it and leaves the loaded models as they are; and
\* while writing to stdout works it does not send the process to the outer
\* handler or out of the loop, and once the loop is back at its head its
\* response is the one record written for it, the feature-count error.
C11_WrongCountIsError ==
    /\ \A i \in 1..Len(lines) :
          WrongCount(lines[i]) =>
              /\ \A j \in 1..Len(proba_calls) : proba_calls[j].for # i
              /\ models = LoadedModels
    /\ (Len(lines) > 0 /\ WrongCount(Current) /\ ~write_failed) =>
          /\ ppc \in {"handle", "emit_count", "read", "exited"}
          /\ bridge_exit # 1
          /\ ppc \in {"read", "exited"} =>
                /\ Len(Responses) > 0
                /\ Responses[Len(Responses)] =
                      [for |-> Len(lines), kind |-> "error",
                       msg |-> "Expected 68 features"]
                /\ \A j \in 1..(Len(Responses) - 1) :
                      Responses[j].for # Len(lines)

\* a request with 67 features and one without the key were answered by the
\* error, and the request after them was scored
C11_Witness ==
    /\ ppc = "read"
    /\ Len(lines) = 3
    /\ lines[1].features = "list" /\ lines[1].n = ExpectedFeatures - 1
    /\ lines[2].features = "absent"
    /\ Answered = <<1, 2, 3>>
    /\ Responses[1].kind = "error" /\ Responses[2].kind = "error"
    /\ Responses[3].kind = "prediction"
    /\ Len(proba_calls) = 2
    /\ \A j \in 1..2 : proba_calls[j].for = 3
    /\ proba_calls[1].model = "recall" /\ proba_calls[2].model = "precision"

\* load_models raised: main's models was never bound
LoadFailed == ppc # "load" /\ models # LoadedModels

ReadyBanners == SelectSeq(out, LAMBDA o : o.kind = "ready")

LoadFailureReports ==
    SelectSeq(out, LAMBDA o : o.kind = "error" /\ o.msg = "Failed to load models")

\* C12: when loading a model failed the banner is never written, no line is
\* taken from the input and no model is asked; the process ends with status
\* 1, and what it wrote, if writing worked, is the one record that reports the
\* failure.
C12_LoadFailureIsFatal ==
    LoadFailed =>
        /\ ppc \in {"fatal", "exited", "crashed"}
        /\ ReadyBanners = <<>>
        /\ lines = <<>> /\ proba_calls = <<>>
        /\ ppc = "fatal" => out = <<>>
        /\ ppc # "fatal" =>
              /\ bridge_exit = 1
              /\ ~write_failed =>
                    out = <<[for |-> 0, kind |-> "error",
                             msg |-> "Failed to load models"]>>

\* loading failed on the precision model and the process has reported it and
\* exited
C12_Witness ==
    /\ ppc = "exited"
    /\ exc = "precision model load error"
    /\ bridge_exit = 1
    /\ Len(out) = 1

\* C13: the process exits with status 1, or reports 'Failed to load models',
\* only when loading the models failed: never once the banner is out.  (Stated
\* for the runs in which every write to stdout went through; the claim covers
\* the others as well.)
C13_FatalOnlyOnLoadFailure ==
    (~write_failed /\ (bridge_exit = 1 \/ LoadFailureReports # <<>>)) =>
        /\ LoadFailed
        /\ ReadyBanners = <<>>

\* C14: the banner is written at most once, only with both models loaded, as
\* the first record of the output; and whenever the process is in its loop, has
\* taken a line or has ended with status 0, it has been written.
C14_BannerOnceAfterLoad ==
    /\ Len(ReadyBanners) <= 1
    /\ ReadyBanners # <<>> =>
          /\ models = LoadedModels
          /\ out[1] = [for |-> 0, kind |-> "ready", msg |-> "models: 2"]
    /\ (\/ ppc \in {"read", "handle", "emit_count", "emit_result",
                     "except_json", "except_exception"}
        \/ lines # <<>> \/ proba_calls # <<>> \/ bridge_exit = 0)
          => Len(ReadyBanners) = 1

\* the process served two lines after its banner and ended at end of input
C14_Witness ==
    /\ ppc = "exited" /\ bridge_exit = 0
    /\ Len(lines) = 2
    /\ Len(out) = 3
    /\ Len(ReadyBanners) = 1

----------------------------------------------------------------------------
(* Properties of predict and classify_severity *)

TierRank == [SAFE |-> 0, LOW |-> 1, HIGH |-> 2, CRITICAL |-> 3]

TierMessage ==
    [SAFE |-> "No significant issues detected.",
     LOW |-> "Minor risk or code complexity warning.",
     HIGH |-> "Suspicious patterns found. Manual review recommended.",
     CRITICAL |-> "High confidence exploit detected. Immediate review required."]

\* C15: classify_severity gives CRITICAL from 0.50 on, HIGH from 0.15 up to
\* but not including 0.50, LOW from 0.007 up to but not including 0.15 and
\* SAFE below 0.007, and the tier of a probability is never below the tier of
\* the next smaller one.  (0.50, 0.15 and 0.007 are 5000, 1500 and 70 units.)
C15_SeverityLadder ==
    returned.kind = "severity" =>
        LET x == call.probability
            tier == returned.value[1]
        IN /\ tier \in DOMAIN TierRank
           /\ tier = "CRITICAL" <=> x >= 5000
           /\ tier = "HIGH" <=> (1500 <= x /\ x < 5000)
           /\ tier = "LOW" <=> (70 <= x /\ x < 1500)
           /\ tier = "SAFE" <=> x < 70
           /\ x > 0 => TierRank[classify_severity(x - 1)[1]] <= TierRank[tier]

\* classify_severity has answered HIGH for exactly 0.15
C15_Witness ==
    /\ returned.kind = "severity"
    /\ call.probability = 1500
    /\ returned.value[1] = "HIGH"

\* C16: in the record predict returns, is_vulnerable is true exactly when
\* probability >= 0.007, which is exactly when severity is not SAFE; threshold
\* is 0.007; severity_message is the message of the severity reported.
C16_VulnerableIffAtThreshold ==
    returned.kind = "prediction" =>
        LET res == returned.value
        IN /\ res.is_vulnerable <=> res.probability >= 70
           /\ res.is_vulnerable <=> res.severity # "SAFE"
           /\ res.threshold = 70
           /\ res.severity \in DOMAIN TierMessage
           /\ res.severity_message = TierMessage[res.severity]

\* predict has returned a probability of exactly 0.007: vulnerable, LOW
C16_Witness ==
    /\ returned.kind = "prediction"
    /\ returned.value.probability = 70
    /\ returned.value.is_vulnerable
    /\ returned.value.severity = "LOW"

\* C17: predict reports the recall model's value as recall_score, the
\* precision model's as precision_score, and 0.7 * r + 0.3 * p as probability,
\* which lies in [0, 1].  (r and p are counted in thousandths, probability in
\* ten-thousandths.)
C17_WeightedEnsemble ==
    returned.kind = "prediction" =>
        LET res == returned.value
            r == call.recall_proba
            p == call.precision_proba
        IN /\ res.recall_score = r
           /\ res.precision_score = p
           /\ res.probability = 7 * r + 3 * p
           /\ 0 <= res.probability /\ res.probability <= 10000

\* predict has combined r = 1 and p = 0 into 0.7, and the two differ
C17_Witness ==
    /\ returned.kind = "prediction"
    /\ call.recall_proba = 1000
    /\ call.precision_proba = 0
    /\ returned.value.probability = 7000

----------------------------------------------------------------------------
(* Properties of output_to_embeddings *)

\* C18: two calls of output_to_embeddings for the same text return the same
\* 16 values, whatever the generator was used for before or between them.
C18_EmbeddingDeterministic ==
    \A i, j \in 1..Len(emb_calls) :
        emb_calls[i].text = emb_calls[j].text =>
            /\ DOMAIN emb_calls[i].embeddings = 0..15
            /\ emb_calls[i].embeddings = emb_calls[j].embeddings

\* the same text was embedded twice, from different states of the generator,
\* the second of them left by other code
C18_Witness ==
    /\ Len(emb_calls) = 2
    /\ emb_calls[1].text = emb_calls[2].text
    /\ emb_calls[2].rng_before # emb_calls[1].rng_after
    /\ emb_calls[2].rng_before # emb_calls[1].rng_before

\* C19: a call of output_to_embeddings leaves the process-wide generator in
\* the state in which it found it.
C19_EmbeddingLeavesGenerator ==
    \A i \in 1..Len(emb_calls) :
        emb_calls[i].rng_after = emb_calls[i].rng_before

\* the text called with has one more occurrence of the word than the text
\* followed
OneMore(a, b) ==
    /\ a.text = subject.text
    /\ b.text = AddOccurrence(subject.text, subject.word)
    /\ \E k \in 1..Len(bullish_words) : bullish_words[k] = subject.word

\* C20: of two texts that differ by one more occurrence of a bullish word,
\* the one with it has a sentiment scalar one step of 0.3 higher, and so the
\* two embeddings differ at index 14 or at index 15.
C20_OneMoreBullishWordShows ==
    \A i, j \in 1..Len(emb_calls) :
        OneMore(emb_calls[i], emb_calls[j]) =>
            LET a == emb_calls[i].embeddings
                b == emb_calls[j].embeddings
            IN /\ b[14].tanh.steps = a[14].tanh.steps + 1
               /\ a[14] # b[14] \/ a[15] # b[15]

\* C24: in pipe mode the two models are bound once, by load_models before the
\* first line is read, and never again: once a line has been read models holds
\* the two loaded objects, every predict_proba call is made on them, and no
\* step other than the load changes models, whatever the line was.
C24_ModelsLoadedOnce ==
    /\ [](lines # <<>> => models = LoadedModels)
    /\ [](\A j \in 1..Len(proba_calls) :
             proba_calls[j].on = LoadedModels[proba_calls[j].model])
    /\ [][models' # models =>
             ppc = "load" /\ lines = <<>> /\ models = NoModels]_vars

\* a scored line and a line that was answered with an error are behind, and
\* the loop is back at reading
C24_Witness ==
    /\ ppc = "read"
    /\ models = LoadedModels
    /\ \E i, j \in 1..Len(lines) :
          /\ i < j
          /\ lines[i].scorable
          /\ IsBadLine(lines[j])
    /\ \E k \in 1..Len(proba_calls) : proba_calls[k].for = 1
    /\ Len(Responses) = Len(lines)

----------------------------------------------------------------------------
(* Properties of the sentiment features *)

\* the number of list words the text contains, and tanh(0.0)
HitsIn(c) ==
    [bullish |-> Hits(bullish_words, c.text),
     bearish |-> Hits(bearish_words, c.text)]
TanhOfZero == [tanh |-> [steps |-> 0, err |-> 0]]

\* C25: index 15 of the embedding is the sign of the sentiment scalar and
\* index 14 its tanh; a text with as many bullish as bearish hits, none
\* included, has 0.0 at both.
C25_BalancedTextIsNeutral ==
    \A i \in 1..Len(emb_calls) :
        LET e == emb_calls[i].embeddings
            s == Sentiment(emb_calls[i].text)
        IN /\ e[14] = [tanh |-> s]
           /\ e[15] = (IF IsPositive(s) THEN 1 ELSE IF IsNegative(s) THEN -1
                                                   ELSE 0)
           /\ HitsIn(emb_calls[i]).bullish = HitsIn(emb_calls[i]).bearish =>
                  e[14] = TanhOfZero /\ e[15] = 0

RECURSIVE Occurrences(_, _, _)
\* how often the first n words of the list occur in the text, in all
Occurrences(words, text, n) ==
    IF n = 0 THEN 0
    ELSE Occurrences(words, text, n - 1)
            + (IF words[n] \in DOMAIN text THEN text[words[n]] ELSE 0)

\* C26: the sentiment scalar is 0.3 times the number of bullish hits less the
\* number of bearish hits, every occurrence of a list word being a hit, so
\* that it grows with the text without a cap.
C26_SentimentCountsEveryHit ==
    \A i \in 1..Len(emb_calls) :
        emb_calls[i].embeddings[14].tanh.steps =
            Occurrences(bullish_words, emb_calls[i].text, Len(bullish_words))
          - Occurrences(bearish_words, emb_calls[i].text, Len(bearish_words))

----------------------------------------------------------------------------
(* Properties of the timing and of the durable files *)

UpToProof == SubSeq(StageOrder, 1, 4)

\* C27: the generationTimeMs of a success result is the time from the start
\* of the request to the moment GEN_PROOF has completed: when it is taken the
\* stages up to GEN_PROOF have been entered and completed and LOCAL_VERIFY
\* has not been entered, and it is taken in the step that leads to
\* LOCAL_VERIFY, before the cleanup loop.
C27_TimeEndsAtProof ==
    /\ [](\A r \in Reqs :
            result[r].kind = "returned" /\ result[r].success =>
                /\ result[r].generationTimeMs.taken
                /\ result[r].generationTimeMs.begun = UpToProof
                /\ result[r].generationTimeMs.covers = UpToProof)
    /\ [][\A r \in Reqs :
            elapsed'[r] # elapsed[r] =>
                pc[r] = "read_proof" /\ pc'[r] = "verify"]_vars

\* a request has returned a success record after verification and cleanup
C27_Witness ==
    \E r \in Reqs :
        /\ result[r].kind = "returned"
        /\ result[r].success
        /\ completed[r] = StageOrder
        /\ \A k \in Kinds : fs[paths(r)[k]] = NoFile

\* the request stopped in an engine call that was given a missing file
StoppedForMissing(r) ==
    /\ Len(invoked[r]) > Len(completed[r])
    /\ LET stage == invoked[r][Len(invoked[r])]
       IN stage \in DOMAIN StageReads /\ ~Present(StageReads[stage])

\* C21: a request made while a durable artifact it needs is missing does not
\* end with the record a failed stage ends with, {success: false, error,
\* outputHash}, so that its caller can tell the two apart.
C21_MissingArtifactIsNoStageFailure ==
    \A r \in Reqs :
        Over(r) /\ result[r].kind = "returned" /\ StoppedForMissing(r)
            => result[r] # FailureResult(r)

\* the setup script of this run went through and said so
SetupSucceeded == spc = "exited" /\ script_exit = 0 /\ "SUCCESS" \in
    {said[i] : i \in 1..Len(said)}

\* C28: once the setup phase has gone through, every durable file a request
\* is about to hand to the engine is a file the setup phase wrote, so that no
\* request made after setup meets a missing durable file.
C28_RequestReadsWhatSetupWrote ==
    \A r \in Reqs :
        /\ script = "full_ezkl_pipeline"
        /\ SetupSucceeded
        /\ pc[r] \in {"gen_witness", "prove", "verify"}
        => LET stage == CASE pc[r] = "gen_witness" -> "GEN_WITNESS"
                          [] pc[r] = "prove" -> "GEN_PROOF"
                          [] pc[r] = "verify" -> "LOCAL_VERIFY"
           IN \A n \in StageReads[stage] : durable[n] = script

\* C29: no script says that the proof was generated and verified, and none
\* returns True, in a run in which ezkl.verify returned false.
C29_NoSuccessWhenVerifierSaidNo ==
    verified = "false" =>
        /\ \A i \in 1..Len(said) : said[i] # "SUCCESS"
        /\ ret # "True"

\* the order in which the ten steps are to run
TenSteps ==
    <<"step1_create_model", "step2_create_input", "step3_gen_settings",
      "step4_compile", "step5_get_srs", "step6_setup", "step7_witness",
      "step8_prove", "step9_verify", "step10_solidity">>

Ran(name) == \E i \in 1..Len(steps_run) : steps_run[i].name = name

AllDone == /\ Len(steps_run) = Len(TenSteps)
           /\ \A i \in 1..Len(steps_run) : steps_run[i].outcome = "done"

\* C30: full_ezkl_pipeline.main runs its ten steps in the fixed order and
\* stops at the first that raises; the Solidity export runs only after
\* ezkl.verify returned true; main returns True, and the process exits with
\* status 0, exactly when all ten steps completed and the verifier said true.
C30_PipelineOrderAndVerdict ==
    script = "full_ezkl_pipeline" =>
        /\ Len(steps_run) <= Len(TenSteps)
        /\ \A i \in 1..Len(steps_run) :
              /\ steps_run[i].name = TenSteps[i]
              /\ i < Len(steps_run) => steps_run[i].outcome = "done"
        /\ Ran("step10_solidity") => verified = "true"
        /\ spc = "exited" =>
              /\ ret \in {"True", "False"}
              /\ ret = "True" <=> AllDone /\ verified = "true"
              /\ script_exit = 0 <=> ret = "True"
              /\ script_exit \in {0, 1}

\* the pipeline has run its ten steps and exited with status 0
C30_Witness ==
    /\ script = "full_ezkl_pipeline"
    /\ spc = "exited"
    /\ AllDone
    /\ ret = "True"
    /\ script_exit = 0

\* request r takes a step
Acts(r) == pc'[r] # pc[r] \/ error'[r] # error[r]

\* C22: a step of a request, in a run that succeeds or fails and however the
\* requests interleave, leaves every durable file as it was, and the only
\* files it creates, rewrites or deletes are at the request's own three
\* transient paths.
C22_RequestsOnlyTouchTransientFiles ==
    [][\A r \in Reqs :
          Acts(r) =>
              /\ durable' = durable
              /\ \A p \in AllPaths :
                    fs'[p] # fs[p] => p \in TransientFiles(r)]_vars

\* two overlapping requests are over, one with a success record and one with
\* a failure record, and the durable files are what they were
C22_Witness ==
    \E r, q \in Reqs :
        /\ Over(r) /\ Over(q)
        /\ result[r].kind = "returned" /\ result[r].success
        /\ result[q].kind = "returned" /\ ~result[q].success
        /\ durable = ByHand

\* request q is in flight: its coroutine has been created and has not returned
Pending(q) == pc[q] = "main" \/ pc[q] \in InBody

\* C23: requests in flight in one process do not wait for one another's
\* proving: while one of them is inside GEN_PROOF, another that is in flight
\* can take its next step.
C23_OthersAdvanceDuringProof ==
    \A r, q \in Reqs :
        loop /\ r # q /\ pc[r] = "prove" /\ Pending(q)
            => ENABLED CoroutineStep(q)

\* what holds instead: while a request is in the body of generate_fresh_proof
\* no other request of the loop takes a step
SerializedInOneLoop ==
    [][\A r, q \in Reqs :
          loop /\ r # q /\ pc[r] \in InBody => ~Acts(q)]_vars

----------------------------------------------------------------------------
(* Properties of setup_ezkl.py *)

\* what main recorded of the guarded step `name`, if it reached it
Outcomes(name) ==
    {steps_run[i].outcome : i \in {k \in 1..Len(steps_run) :
                                      steps_run[k].name = name}}

SkippedIffExisted(name) ==
    \A i \in 1..Len(steps_run) :
        steps_run[i].name = name =>
            (steps_run[i].outcome = "skipped" <=> steps_run[i].existed)

\* the part of C31 that the code keeps: each of the three guarded steps is
\* skipped exactly when its output existed
SetupEzklSkipsWhatExists ==
    script = "setup_ezkl" =>
        /\ SkippedIffExisted("create_onnx_model")
        /\ SkippedIffExisted("create_calibration_data")
        /\ SkippedIffExisted("setup_ezkl")

TestAttempted ==
    \E i \in 1..Len(steps_run) :
        steps_run[i].name \in {"test_input", "gen_witness", "prove", "verify"}

\* C31: in a run of setup_ezkl.py, model creation, calibration data and key
\* setup are skipped exactly when their output already exists, and the test
\* proof generation is attempted only when setup_ezkl returned True in this
\* run or was skipped because the proving key existed; after setup_ezkl
\* returned False no step of test_proof_generation is taken
C31_TestOnlyAfterKeySetup ==
    script = "setup_ezkl" =>
        /\ SetupEzklSkipsWhatExists
        /\ TestAttempted =>
               Outcomes("setup_ezkl") \cap {"True", "skipped"} # {}
        /\ "False" \in Outcomes("setup_ezkl") => ~TestAttempted

----------------------------------------------------------------------------
(* Properties of the edges of the two programs *)

\* C32: a one-shot invocation without a text argument prints the usage to
\* stderr and exits with status 1: it prints nothing to stdout, enters no
\* stage, returns no result and creates no transient file.
C32_NoArgumentIsUsageError ==
    \A r \in Reqs :
        argv[r] = NoArg /\ pc[r] # "main" =>
            /\ pc[r] = "exit"
            /\ exit_code[r] = 1
            /\ stderr[r] = UsageLines
            /\ stdout[r] = <<>>
            /\ invoked[r] = <<>>
            /\ result[r] = NoResult
            /\ \A p \in AllPaths : fs[p].by # r

\* an invocation without argument has ended after one with a text ran its
\* pipeline through
C32_Witness ==
    \E r, q \in Reqs :
        /\ argv[r] = NoArg /\ Exited(r)
        /\ argv[q] # NoArg /\ completed[q] = StageOrder /\ Exited(q)

\* C33: when the loop over sys.stdin finds the end of the input, the models
\* having been loaded and the banner written, the process ends with exit
\* status 0, and by then every line read that carried a request has its
\* response on stdout, a prediction or an error record; nothing is written
\* after the end of the input was found.
C33_EndOfInputIsExitZero ==
    /\ [][ppc = "read" /\ ppc' = "exited" =>
             /\ bridge_exit' = 0
             /\ models = LoadedModels
             /\ Len(ReadyBanners) = 1
             /\ out' = out]_vars
    /\ [](bridge_exit = 0 =>
             /\ ppc = "exited"
             /\ Answered = NonBlank(lines, Len(lines))
             /\ \A j \in 1..Len(Responses) :
                   Responses[j].kind \in {"prediction", "error"})

\* the input ended after three lines, answered by a prediction, by the error
\* of a bad line and by a prediction again
C33_Witness ==
    /\ ppc = "exited"
    /\ bridge_exit = 0
    /\ Len(lines) = 3
    /\ Answered = <<1, 2, 3>>
    /\ Responses[1].kind = "prediction"
    /\ Responses[2].kind = "error"
    /\ Responses[3].kind = "prediction"

====
